---- MODULE Spec2Model ----
(***************************************************************************)
(* Kryptos wallet risk engine: the analyze_wallet orchestrator, the batch  *)
(* analyzer's single-address path, the sanctions engine, the label         *)
(* registry, the wallet scorer, the graph scorer's weight state and the    *)
(* fetcher's rate limiter.                                                 *)
(*                                                                         *)
(* Conventions.  A Python string that may still carry upper-case letters   *)
(* is a record [lc |-> its lower-cased text, up |-> it has upper-case      *)
(* letters]; str.lower() maps it to the plain text lc.  Ratios are in      *)
(* percent, scores are integers, times are in units of 50 ms.              *)
(***************************************************************************)
EXTENDS Integers, Sequences, FiniteSets, TLC

VARIABLES
  phase,           \* "idle" or "returned": whether a handler has just returned
  env,             \* the request being served and what the outside world answers
  report,          \* the value the last handler returned
  prev,            \* request and report of the call before, when it is repeated
  rng,             \* gnn_scorer.rng: numbers drawn so far from RandomState(42)
  calls,           \* handler calls so far
  fetch_log,       \* addresses the last handler passed to fetch_transactions
  reports,         \* the community reports journal (REPORTS_FILE)
  last_call_time,  \* fetcher._last_call_time
  clock,           \* time.time()
  thr,             \* per thread: position in _rate_limit and its locals
  passed,          \* times at which a request left _rate_limit
  votes,           \* the vote journal (VOTES_FILE): vote_key -> vote
  nid,             \* reports created so far (the clock reading hashed into an id)
  vres,            \* what the last submit_report or vote_report call returned
  jthr,            \* per thread: position in submit_report / vote_report, locals
  acked,           \* community calls that returned success
  cache,           \* the cache directory: key -> [mtime, data]
  cnow,            \* time.time() as the cache sees it, in units of 100 s
  api_calls,       \* requests sent to the remote API so far
  fres,            \* the last fetch_transactions call: its inputs and what it did
  call,            \* a detector or scorer call on its own: function, input, output
  labels,          \* LabelStore._labels: wallet -> label, source, confidence
  added,           \* the LabelStore.add calls so far, in order
  sthr,            \* per analysis thread: position in the scoring steps, locals
  scaler,          \* wallet_scorer.scaler: the matrix it was last fitted on
  model,           \* wallet_scorer.model: the matrix it was last fitted on
  weights          \* gnn_scorer._weights

journal_vars == <<votes, nid, vres, jthr, acked>>
cache_vars == <<cache, cnow, api_calls, fres>>
store_vars == <<labels, added>>
scorer_vars == <<sthr, scaler, model, weights>>
pure_vars == <<call, store_vars, scorer_vars>>
ext_vars == <<journal_vars, cache_vars, pure_vars>>

vars == <<phase, env, report, prev, rng, calls, fetch_log, reports,
          last_call_time, clock, thr, passed, ext_vars>>

orch_vars == <<phase, env, report, prev, rng, calls, fetch_log, reports>>
rate_vars == <<last_call_time, clock, thr, passed>>

\* ------------------------------------------------------------------ bounds
MaxCalls == 2
MaxJournal == 3

\* ----------------------------------------------------------------- helpers
Min(a, b) == IF a < b THEN a ELSE b
Max(a, b) == IF a > b THEN a ELSE b
Clip(x, lo, hi) == Max(lo, Min(x, hi))
Range(s) == {s[i] : i \in 1..Len(s)}
Contains(s, x) == \E i \in 1..Len(s) : s[i] = x
AppendNew(s, x) == IF Contains(s, x) THEN s ELSE Append(s, x)

RECURSIVE SetToSeq(_)
\* iteration over a Python set: some fixed order
SetToSeq(S) ==
  IF S = {} THEN <<>>
  ELSE LET x == CHOOSE y \in S : TRUE IN <<x>> \o SetToSeq(S \ {x})

\* -------------------------------------------------------- strings, addresses
Lower(s) == s.lc
Raw(t) == [lc |-> t, up |-> FALSE]
Mixed(t) == [lc |-> t, up |-> TRUE]

HexDigits == {"0","1","2","3","4","5","6","7","8","9","a","b","c","d","e","f"}

\* ADDRESS_PATTERN ^0x[a-fA-F0-9]{40}$ on the stripped input
is_address(value) ==
  /\ Len(value.lc) = 42
  /\ SubSeq(value.lc, 1, 2) = "0x"
  /\ \A i \in 3..42 : SubSeq(value.lc, i, i) \in HexDigits

EndsWithEth(t) == Len(t) >= 4 /\ SubSeq(t, Len(t) - 3, Len(t)) = ".eth"

\* ENS_PATTERN ^[a-zA-Z0-9\-]+\.eth$ : a non-empty label without dots
is_ens_name(name) ==
  /\ Len(name.lc) > 4
  /\ EndsWithEth(name.lc)
  /\ \A i \in 1..(Len(name.lc) - 4) : SubSeq(name.lc, i, i) # "."

\* ------------------------------------------------------------ static tables
OFAC_SANCTIONED ==
     "0x8589427373d6d84e98730d7795d8f6f8731fda16" :> "Tornado Cash: Proxy" @@
     "0x722122df12d4e14e13ac3b6895a86e84145b6967" :> "Tornado Cash: Router" @@
     "0xd90e2f925da726b50c4ed8d0fb90ad053324f31b" :> "Tornado Cash: 100 ETH" @@
     "0xd4b88df4d29f5cedd6857912842cff3b20c8cfa3" :> "Tornado Cash: 1000 ETH" @@
     "0xa160cdab225685da1d56aa342ad8841c3b53f291" :> "Tornado Cash: 0.1 ETH" @@
     "0xfd8610d20aa15b7b2e3be39b396a1bc3516c7144" :> "Tornado Cash: 10 ETH" @@
     "0xf60dd140cff0706bae9cd734ac3683f84d726559" :> "Tornado Cash: 1 ETH (2)" @@
     "0x905b63fff465b9ffbf41dea908ceb12cd9f4647c" :> "Tornado Cash: 10000 ETH" @@
     "0x07687e702b410fa43f4cb4af7fa097918ffd2730" :> "Tornado Cash: Gitcoin Grants" @@
     "0x94a1b5cdb22c43faab4abeb5c74999895464ddba" :> "Tornado Cash: Donation" @@
     "0xb541fc07bc7619fd4062a54d96268525cbc6ffef" :> "Tornado Cash: WStaking" @@
     "0x12d66f87a04a9e220743712ce6d9bb1b5616b8fc" :> "Tornado Cash: 0.1 ETH (2)" @@
     "0x23773e65ed146a459791799d01336db287f25334" :> "Tornado Cash: 100 DAI" @@
     "0xba214c1c1928a32bffe790263e38b4af9bfcd659" :> "Tornado Cash: 1000 DAI" @@
     "0xd21be7248e0197ee08e0c20d4a398dad3e452dfc" :> "Tornado Cash: wBTC Pool" @@
     "0x098b716b8aaf21512996dc57eb0615e2383e2f96" :> "Lazarus Group: Ronin Bridge Exploiter" @@
     "0xa0e1c89ef1a489c9c7de96311ed5ce5d32c20e4b" :> "Lazarus Group: Sub-wallet 1" @@
     "0x3cffd56b47b7b41c56258d9c7731abadc360e460" :> "Lazarus Group: Sub-wallet 2" @@
     "0x53b6936513e738f44fb50d2b9476730c0ab3bfc1" :> "Lazarus Group: Sub-wallet 3" @@
     "0x19aa5fe80d33a56d56c78e82ea5e50e5d80b4dff" :> "Garantex Exchange" @@
     "0xe7aa314c77f4233c18c6cc84384a9247c0cf367b" :> "Garantex Exchange Hot Wallet" @@
     "0x2f389ce8bd8ff92de3402ffce4691d17fc4f6535" :> "Chatex Exchange" @@
     "0x67d40ee1a85bf4a09ee570e0c42e831bf0dc48ea" :> "Suex OTC" @@
     "0x39d908dac893cbcb53cc86e0ecc369aa4def1a29" :> "Blender.io Mixer" @@
     "0xb6f5ec1a0a9cd1526536d3f0426c429529471f40" :> "Blender.io Mixer 2" @@
     "0x57b2b8c82f065de8ef5573f9730fc1449b403c9f" :> "Sindbad.io Mixer"

KNOWN_SCAM_ADDRESSES ==
     "0x00000000a991c429ee2ec6df19d40fe0c80088b8" :> "Fake Phishing (zero-value transfer)" @@
     "0x55d398326f99059ff775485246999027b3197955" :> "BSC USDT Phishing Clone"

KNOWN_ADDRESSES ==
     "0x28c6c06298d514db089934071355e5743bf21d60" :> <<"Binance 14", "exchange">> @@
     "0x21a31ee1afc51d94c2efccaa2092ad1028285549" :> <<"Binance 15", "exchange">> @@
     "0xdfd5293d8e347dfe59e90efd55b2956a1343963d" :> <<"Binance 16", "exchange">> @@
     "0x56eddb7aa87536c09ccc2793473599fd21a8b17f" :> <<"Binance 17", "exchange">> @@
     "0x9696f59e4d72e237be84ffd425dcad154bf96976" :> <<"Binance 18", "exchange">> @@
     "0xbe0eb53f46cd790cd13851d5eff43d12404d33e8" :> <<"Binance 7", "exchange">> @@
     "0xf977814e90da44bfa03b6295a0616a897441acec" :> <<"Binance 8", "exchange">> @@
     "0x3f5ce5fbfe3e9af3971dd833d26ba9b5c936f0be" :> <<"Binance 1", "exchange">> @@
     "0xd551234ae421e3bcba99a0da6d736074f22192ff" :> <<"Binance 2", "exchange">> @@
     "0x564286362092d8e7936f0549571a803b203aaced" :> <<"Binance 3", "exchange">> @@
     "0x0681d8db095565fe8a346fa0277bffde9c0edbbf" :> <<"Binance 4", "exchange">> @@
     "0xfe9e8709d3215310075d67e3ed32a380ccf451c8" :> <<"Binance 5", "exchange">> @@
     "0x4e9ce36e442e55ecd9025b9a6e0d88485d628a67" :> <<"Binance 6", "exchange">> @@
     "0x47ac0fb4f2d84898e4d9e7b4dab3c24507a6d503" :> <<"Binance: Binance-Peg Tokens", "exchange">> @@
     "0xeb2629a2734e272bcc07bda959863f316f4bd4cf" :> <<"Coinbase 6", "exchange">> @@
     "0xa9d1e08c7793af67e9d92fe308d5697fb81d3e43" :> <<"Coinbase 10", "exchange">> @@
     "0x503828976d22510aad0201ac7ec88293211d23da" :> <<"Coinbase 1", "exchange">> @@
     "0xddfabcdc4d8ffc6d5beaf154f18b778f892a0740" :> <<"Coinbase 3", "exchange">> @@
     "0x3cd751e6b0078be393132286c442345e5dc49699" :> <<"Coinbase 4", "exchange">> @@
     "0x71660c4005ba85c37ccec55d0c4493e66fe775d3" :> <<"Coinbase 5", "exchange">> @@
     "0xb5d85cbf7cb3ee0d56b3bb207d5fc4b82f43f511" :> <<"Coinbase 7", "exchange">> @@
     "0xd688aea8f7d450909ade10c47faa95707b0682d9" :> <<"Coinbase 2", "exchange">> @@
     "0x2910543af39aba0cd09dbb2d50200b3e800a63d2" :> <<"Kraken 13", "exchange">> @@
     "0xae2d4617c862309a3d75a0ffb358c7a5009c673f" :> <<"Kraken 10", "exchange">> @@
     "0x267be1c1d684f78cb4f6a176c4911b741e4ffdc0" :> <<"Kraken 4", "exchange">> @@
     "0xfa52274dd61e1643d2205169732f29114bc240b3" :> <<"Kraken 7", "exchange">> @@
     "0x53d284357ec70ce289d6d64134dfac8e511c8a3d" :> <<"Kraken 4", "exchange">> @@
     "0x2b5634c42055806a59e9107ed44d43c426e58258" :> <<"KuCoin 1", "exchange">> @@
     "0x689c56aef474df92d44a1b70850f808488f9769c" :> <<"KuCoin 2", "exchange">> @@
     "0xa7efae728d2936e78bda97dc267687568dd593f3" :> <<"OKX 3", "exchange">> @@
     "0x6cc5f688a315f3dc28a7781717a9a798a59fda7b" :> <<"OKX 4", "exchange">> @@
     "0x236f9f97e0e62388479bf9e5ba4889e46b0273c3" :> <<"OKX 2", "exchange">> @@
     "0x75e89d5979e4f6fba9f97c104c2f0afb3f1dcb88" :> <<"MEXC", "exchange">> @@
     "0x0d0707963952f2fba59dd06f2b425ace40b492fe" :> <<"Gate.io 1", "exchange">> @@
     "0x7793cd85c11a924478d358d49b7f846492535b80" :> <<"Gate.io 2", "exchange">> @@
     "0x1151314c646ce4e0efd76d1af4760ae66a9fe30f" :> <<"Bitfinex 1", "exchange">> @@
     "0x876eabf441b2ee5b5b0554fd502a8e0600950cfa" :> <<"Bitfinex 4", "exchange">> @@
     "0xab7c74abc0c4d48d1bdad5dcb26153fc8780f83e" :> <<"Bitfinex MultiSig 1", "exchange">> @@
     "0xc098b2a3aa256d2140208c3de6543aaef5cd3a94" :> <<"FTX Exchange", "exchange">> @@
     "0x2faf487a4414fe77e2327f0bf4ae2a264a776ad2" :> <<"FTX 1", "exchange">> @@
     "0xdc76cd25977e0a5ae17155770273ad58648900d3" :> <<"Bybit", "exchange">> @@
     "0xf89d7b9c864f589bbf53a82105107622b35eaa40" :> <<"Bybit 2", "exchange">> @@
     "0x1ab4973a48dc892cd9971ece8e01dcc7688f8f23" :> <<"Gemini 4", "exchange">> @@
     "0x07ee55aa48bb72dcc6e9d78256648910de513eca" :> <<"Gemini 7", "exchange">> @@
     "0x7a250d5630b4cf539739df2c5dacb4c659f2488d" :> <<"Uniswap V2 Router", "dex">> @@
     "0xe592427a0aece92de3edee1f18e0157c05861564" :> <<"Uniswap V3 Router", "dex">> @@
     "0x68b3465833fb72a70ecdf485e0e4c7bd8665fc45" :> <<"Uniswap V3 Router 2", "dex">> @@
     "0x3fc91a3afd70395cd496c647d5a6cc9d4b2b7fad" :> <<"Uniswap Universal Router", "dex">> @@
     "0xd9e1ce17f2641f24ae83637ab66a2cca9c378b9f" :> <<"SushiSwap Router", "dex">> @@
     "0x1111111254eeb25477b68fb85ed929f73a960582" :> <<"1inch v5 Router", "dex">> @@
     "0x11111112542d85b3ef69ae05771c2dccff4faa26" :> <<"1inch v3 Router", "dex">> @@
     "0x1231deb6f5749ef6ce6943a275a1d3e7486f4eae" :> <<"LI.FI Diamond", "bridge">> @@
     "0xdef1c0ded9bec7f1a1670819833240f027b25eff" :> <<"0x Exchange Proxy", "dex">> @@
     "0x881d40237659c251811cec9c364ef91dc08d300c" :> <<"MetaMask Swap Router", "dex">> @@
     "0x3328f7f4a1d1c57c35df56bbf0c9dcafca309c49" :> <<"Banana Gun Router", "dex">> @@
     "0x80a64c6d7f12c47b7c66c5b4e20e72bc0011e653" :> <<"Maestro Router", "dex">> @@
     "0x3154cf16ccdb4c6d922629664174b904d80f2c35" :> <<"Base Bridge", "bridge">> @@
     "0x49048044d57e1c92a77f79988d21fa8faf74e97e" :> <<"Base Portal", "bridge">> @@
     "0x3ee18b2214aff97000d974cf647e7c347e8fa585" :> <<"Wormhole: Portal", "bridge">> @@
     "0x99c9fc46f92e8a1c0dec1b1747d010903e884be1" :> <<"Optimism Gateway", "bridge">> @@
     "0x4dbd4fc535ac27206064b68ffcf827b0a60bab3f" :> <<"Arbitrum Delayed Inbox", "bridge">> @@
     "0x8315177ab297ba92a06054ce80a67ed4dbd7ed3a" :> <<"Arbitrum Bridge", "bridge">> @@
     "0x2796317b0ff8538f253012862c06787adfb8ceb6" :> <<"Synapse Bridge", "bridge">> @@
     "0xa0c68c638235ee32657e8f720a23cec1bfc77c77" :> <<"Polygon Bridge", "bridge">> @@
     "0x40ec5b33f54e0e8a33a975908c5ba1c14e5bbbdf" :> <<"Polygon: ERC20 Bridge", "bridge">> @@
     "0xe4ef137290faec60a1058e29709fc09ac3b6f2af" :> <<"Wormhole: Token Bridge", "bridge">> @@
     "0xd19d4b5d358258f05d7b411e21a1460d11b0876f" :> <<"Hop Protocol", "bridge">> @@
     "0x7d2768de32b0b80b7a3454c06bdac94a69ddc7a9" :> <<"Aave V2 Lending Pool", "defi">> @@
     "0x87870bca3f3fd6335c3f4ce8392d69350b4fa4e2" :> <<"Aave V3 Pool", "defi">> @@
     "0xc3d688b66703497daa19211eedff47f25384cdc3" :> <<"Compound V3 cUSDCv3", "defi">> @@
     "0xa17581a9e3356d9a858b789d68b4d866e593ae94" :> <<"Compound V3 cWETHv3", "defi">> @@
     "0xbebc44782c7db0a1a60cb6fe97d0b483032ff1c7" :> <<"Curve: 3pool", "defi">> @@
     "0xdc24316b9ae028f1497c275eb9192a3ea0f67022" :> <<"Lido: stETH Curve Pool", "defi">> @@
     "0xae7ab96520de3a18e5e111b5eaab095312d7fe84" :> <<"Lido: stETH", "defi">> @@
     "0xba12222222228d8ba445958a75a0704d566bf2c8" :> <<"Balancer: Vault", "defi">> @@
     "0x83f20f44975d03b1b09e64809b757c47f942beea" :> <<"Spark: sDAI", "defi">> @@
     "0xc36442b4a4522e871399cd717abdd847ab11fe88" :> <<"Uniswap V3: Positions NFT", "defi">> @@
     "0xdac17f958d2ee523a2206206994597c13d831ec7" :> <<"USDT (Tether)", "stablecoin">> @@
     "0xa0b86991c6218b36c1d19d4a2e9eb0ce3606eb48" :> <<"USDC (Circle)", "stablecoin">> @@
     "0x6b175474e89094c44da98b954eedeac495271d0f" :> <<"DAI (MakerDAO)", "stablecoin">> @@
     "0x4fabb145d64652a948d72533023f6e7a623c7c53" :> <<"BUSD (Binance USD)", "stablecoin">> @@
     "0xd90e2f925da726b50c4ed8d0fb90ad053324f31b" :> <<"Tornado Cash: Router", "mixer">> @@
     "0x722122df12d4e14e13ac3b6895a86e84145b6967" :> <<"Tornado Cash: Proxy", "mixer">> @@
     "0xdd4c48c0b24039969fc16d1cdf626eab821d3384" :> <<"Tornado Cash: 0.1 ETH", "mixer">> @@
     "0xd4b88df4d29f5cedd6857912842cff3b20c8cfa3" :> <<"Tornado Cash: 1 ETH", "mixer">> @@
     "0xfd8610d20aa15b7b2e3be39b396a1bc3516c7144" :> <<"Tornado Cash: 10 ETH", "mixer">> @@
     "0x07687e702b410fa43f4cb4af7fa097918ffd2730" :> <<"Tornado Cash: 100 ETH", "mixer">> @@
     "0x94a1b5cdb22c43faab4abeb5c74999895464ddba" :> <<"Tornado Cash: 0.1 ETH 2", "mixer">> @@
     "0x12d66f87a04a9e220743712ce6d9bb1b5616b8fc" :> <<"Tornado Cash: 0.1 ETH 3", "mixer">> @@
     "0x00000000006c3852cbef3e08e8df289169ede581" :> <<"OpenSea: Seaport 1.1", "nft">> @@
     "0x00000000000001ad428e4906ae43d8f9852d0dd6" :> <<"OpenSea: Seaport 1.4", "nft">> @@
     "0x00000000000000adc04c56bf30ac9d3c0aaf14dc" :> <<"OpenSea: Seaport 1.5", "nft">> @@
     "0x74312363e45dcaba76c59ec49a7aa8a65a67eed3" :> <<"X2Y2: Exchange", "nft">> @@
     "0x59728544b08ab483533076417fbbb2fd0b17ce3a" :> <<"LooksRare: Exchange", "nft">> @@
     "0x00000000000006c7676171937c444f6bde3d6282" :> <<"Blur: Marketplace", "nft">> @@
     "0xd8da6bf26964af9d7eed9e03e53415d37aa96045" :> <<"Vitalik Buterin", "other">> @@
     "0x220866b1a2219f40e72f5c628b65d54268ca3a9d" :> <<"Vitalik Buterin 2", "other">> @@
     "0x00000000219ab540356cbb839cbe05303d7705fa" :> <<"ETH2 Deposit Contract", "other">> @@
     "0x0000000000000000000000000000000000000000" :> <<"Null Address (Burn)", "other">> @@
     "0x000000000000000000000000000000000000dead" :> <<"Dead Address (Burn)", "other">>


\* Python None where a string is expected
None == "<None>"

\* address texts the requests and the fetched histories are drawn from
ADDR_LAZARUS == "0x098b716b8aaf21512996dc57eb0615e2383e2f96"
ADDR_TORNADO == "0xd90e2f925da726b50c4ed8d0fb90ad053324f31b"
ADDR_MIXER == "0xdd4c48c0b24039969fc16d1cdf626eab821d3384"
ADDR_SCAM == "0x00000000a991c429ee2ec6df19d40fe0c80088b8"
ADDR_BINANCE == "0x28c6c06298d514db089934071355e5743bf21d60"
ADDR_PLAIN == "0x1f9840a85d5af5bf1d1762f925bdaddc4201f984"
BAD_NONHEX == "0xzzzzzzzzzzzzzzzzzzzzzzzzzzzzzzzzzzzzzzzz"
BAD_SHORT == "0x1234"
ENS_NAME == "vitalik.eth"
ENS_TARGET == "0xd8da6bf26964af9d7eed9e03e53415d37aa96045"

\* ----------------------------------------------------------- label registry
\* dict.get(key): the entry of a table, or the default when the key is absent
Get(table, key, default) == IF key \in DOMAIN table THEN table[key] ELSE default

\* an absent entry of KNOWN_ADDRESSES
NoEntry == <<>>

\* the absent answer has both fields None
EntryInfo(entry) ==
  IF entry # NoEntry THEN [label |-> entry[1], category |-> entry[2]]
  ELSE [label |-> None, category |-> None]

lookup_address(address) == EntryInfo(Get(KNOWN_ADDRESSES, address, NoEntry))

EntryIsMixer(entry) == entry # NoEntry /\ entry[2] = "mixer"

is_mixer(address) == EntryIsMixer(Get(KNOWN_ADDRESSES, address, NoEntry))

\* ---------------------------------------------------------- sanctions engine
\* variant: the mixer hit adds nothing
SanctionsRiskModifier_nomixer(ofac, scam, mixer_flag) ==
  Min((IF ofac THEN 40 ELSE 0) + (IF scam THEN 30 ELSE 0), 50)

\* sanctions.py 78-104, 114: 40 for OFAC, 30 for the scam list, 25 for a mixer, capped
SanctionsRiskModifier(ofac, scam, mixer_flag) ==
  Min((IF ofac THEN 40 ELSE 0) + (IF scam THEN 30 ELSE 0) + (IF mixer_flag THEN 25 ELSE 0), 50)

\* sanctions.py 73-117 over the three lookups: ofac_label and scam_label are the
\* tables' entries (None when absent), label_info is lookup_address(addr)
SanctionsResult(ofac_label, scam_label, mixer_flag, label_info) ==
  LET ofac == ofac_label # None
      scam == scam_label # None
      l1 == IF ofac THEN <<[list_name |-> "OFAC SDN", label |-> ofac_label]>> ELSE <<>>
      l2 == IF scam THEN <<[list_name |-> "Community Scam List", label |-> scam_label]>>
            ELSE <<>>
      l3 == IF mixer_flag THEN <<[list_name |-> "Mixer", label |-> label_info.label]>>
            ELSE <<>>
      lists == l1 \o l2 \o l3
  IN [is_sanctioned |-> \E i \in 1..Len(lists) : lists[i].list_name = "OFAC SDN",
      is_mixer |-> mixer_flag,
      is_scam |-> \E i \in 1..Len(lists) : lists[i].list_name = "Community Scam List",
      lists |-> lists,
      risk_modifier |-> SanctionsRiskModifier(ofac, scam, mixer_flag),
      known_label |-> label_info.label,
      known_category |-> label_info.category]

check_sanctions(addr) ==
  SanctionsResult(Get(OFAC_SANCTIONED, addr, None), Get(KNOWN_SCAM_ADDRESSES, addr, None),
                  is_mixer(addr), lookup_address(addr))

RECURSIVE SelectSanctioned(_, _)
\* sanctions.py 130-133: results[i] is check_sanctions(addresses[i])
SelectSanctioned(addresses, results) ==
  IF addresses = <<>> THEN <<>>
  ELSE (IF Head(results).is_sanctioned
        THEN <<[address |-> Head(addresses), label |-> Head(results).lists[1].label]>>
        ELSE <<>>) \o SelectSanctioned(Tail(addresses), Tail(results))

\* sanctions.py 130-148 over the per-address results
CounterpartySummary(addresses, results) ==
  LET sanctioned == SelectSanctioned(addresses, results)
      mixers == {i \in 1..Len(addresses) : results[i].is_mixer}
      scams == {i \in 1..Len(addresses) : results[i].is_scam}
  IN [total_checked |-> Len(addresses),
      sanctioned_count |-> Len(sanctioned),
      mixer_count |-> Cardinality(mixers),
      scam_count |-> Cardinality(scams),
      sanctioned_addresses |-> sanctioned,
      risk_level |-> IF sanctioned # <<>> THEN "critical"
                     ELSE IF mixers # {} THEN "high"
                     ELSE IF scams # {} THEN "medium" ELSE "clean"]

check_counterparty_sanctions(addresses) ==
  CounterpartySummary(addresses,
                      [i \in 1..Len(addresses) |-> check_sanctions(addresses[i])])

\* -------------------------------------------------------- community reports
MIN_REPORTS_THRESHOLD == 2
MAX_COMMUNITY_MODIFIER == 30

RECURSIVE Pow(_, _)
Pow(b, n) == IF n = 0 THEN 1 ELSE b * Pow(b, n - 1)

RECURSIVE ILog2(_)
\* floor(log2(m)) for m >= 1
ILog2(m) == IF m < 2 THEN 0 ELSE 1 + ILog2(m \div 2)

\* variant: the logarithm is truncated before it is scaled
LogModifier_coarse(total) == Min(8 * ILog2(total + 1), MAX_COMMUNITY_MODIFIER)

\* int(math.log2(total + 1) * 8) = floor(log2((total + 1)^8)); from 13 reports on
\* the value is at least 30 and the cap decides
LogModifier(total) ==
  IF total + 1 >= 14 THEN MAX_COMMUNITY_MODIFIER
  ELSE Min(ILog2(Pow(total + 1, 8)), MAX_COMMUNITY_MODIFIER)

get_reports(journal, address) ==
  LET matching == {i \in 1..Len(journal) : journal[i].address = address}
      total == Cardinality(matching)
  IN [address |-> address,
      total_reports |-> total,
      risk_modifier |-> IF total >= MIN_REPORTS_THRESHOLD THEN LogModifier(total) ELSE 0,
      threshold_met |-> total >= MIN_REPORTS_THRESHOLD]

get_community_risk_modifier(journal, address) == get_reports(journal, address).risk_modifier

NewReport(i, address) ==
  [id |-> i, address |-> address, category |-> "scam", reporter_id |-> "anonymous",
   upvotes |-> 0, downvotes |-> 0, status |-> "pending"]

\* ------------------------------------------------------------- wallet scorer
\* variant: the sum of the rules is returned uncapped
_compute_heuristic_boost_uncapped(f) ==
    (IF f.round_value_ratio > 60 THEN 20 ELSE IF f.round_value_ratio > 30 THEN 10 ELSE 0)
  + (IF f.burst_ratio > 50 THEN 25 ELSE IF f.burst_ratio > 20 THEN 10 ELSE 0)
  + (IF f.self_transfers > 3 THEN 15 ELSE IF f.self_transfers > 0 THEN 5 ELSE 0)
  + (IF f.flow_ratio > 5 THEN 20 ELSE IF f.flow_ratio > 2 THEN 10 ELSE 0)
  + (IF f.failed_tx_ratio > 30 THEN 15 ELSE 0)
  + (IF f.tx_count > 20 /\ f.unique_counterparties < 5 THEN 15 ELSE 0)
  + (IF f.lifespan_days < 7 /\ f.tx_count > 30 THEN 20 ELSE 0)
  + (IF f.lifespan_days < 3 /\ f.max_value > 10 THEN 15 ELSE 0)

\* ratios in percent: round_value_ratio, burst_ratio, failed_tx_ratio, contract_call_ratio
_compute_heuristic_boost(f) ==
  LET score ==
        (IF f.round_value_ratio > 60 THEN 20 ELSE IF f.round_value_ratio > 30 THEN 10 ELSE 0)
      + (IF f.burst_ratio > 50 THEN 25 ELSE IF f.burst_ratio > 20 THEN 10 ELSE 0)
      + (IF f.self_transfers > 3 THEN 15 ELSE IF f.self_transfers > 0 THEN 5 ELSE 0)
      + (IF f.flow_ratio > 5 THEN 20 ELSE IF f.flow_ratio > 2 THEN 10 ELSE 0)
      + (IF f.failed_tx_ratio > 30 THEN 15 ELSE 0)
      + (IF f.tx_count > 20 /\ f.unique_counterparties < 5 THEN 15 ELSE 0)
      + (IF f.lifespan_days < 7 /\ f.tx_count > 30 THEN 20 ELSE 0)
      + (IF f.lifespan_days < 3 /\ f.max_value > 10 THEN 15 ELSE 0)
  IN Min(score, 100)

_generate_flags(f, score) ==
    (IF f.burst_ratio > 30 THEN <<"Rapid-fire transactions detected (possible bot)">> ELSE <<>>)
 \o (IF f.round_value_ratio > 50
     THEN <<"High ratio of round-number transfers (laundering pattern)">> ELSE <<>>)
 \o (IF f.self_transfers > 0
     THEN <<ToString(f.self_transfers) \o " self-transfer(s) detected">> ELSE <<>>)
 \o (IF f.flow_ratio > 3 THEN <<"Wallet is a net sender (draining pattern)">> ELSE <<>>)
 \o (IF f.failed_tx_ratio > 20 THEN <<"High transaction failure rate">> ELSE <<>>)
 \o (IF f.tx_count > 20 /\ f.unique_counterparties < 5
     THEN <<"Transaction cycling - few counterparties, many txns">> ELSE <<>>)
 \o (IF f.lifespan_days < 7 /\ f.tx_count > 30
     THEN <<"New wallet with unusually high activity">> ELSE <<>>)
 \o (IF f.contract_call_ratio > 80 THEN <<"Primarily interacts with contracts">> ELSE <<>>)
 \o (IF score < 25 THEN <<"No significant anomalies detected">> ELSE <<>>)

RiskLabel(final_score) ==
  IF final_score >= 75 THEN "High Risk"
  ELSE IF final_score >= 40 THEN "Medium Risk"
  ELSE "Low Risk"

\* f: the target's features, ml_score: the isolation forest's normalised score of
\* the target row (0..100), n_neighbors: len(neighbor_txns)
score_wallet(f, ml_score, n_neighbors) ==
  LET heuristic_boost == _compute_heuristic_boost(f)
      final_score == Clip((7 * ml_score + 3 * heuristic_boost) \div 10, 0, 100)
  IN [risk_score |-> final_score,
      risk_label |-> RiskLabel(final_score),
      ml_raw_score |-> ml_score,
      heuristic_score |-> heuristic_boost,
      flags |-> _generate_flags(f, final_score),
      neighbors_analyzed |-> n_neighbors]

\* --------------------------------------------------------------- graph scorer
\* the first numbers of RandomState(42).randn, times ten and rounded; the
\* stream is read cyclically beyond the table
RandnTable == <<5, -1, 6, 15, -2, -2, 16, 8, -5, 5>>
Randn(i) == RandnTable[(i % Len(RandnTable)) + 1]
N_LAYERS == 2
Relu(x) == Max(0, x)

\* one weight per layer, drawn from the scorer's own generator at position r
_init_weights(r) ==
  [weights |-> [i \in 1..N_LAYERS |-> Randn(r + i - 1)], rng |-> r + N_LAYERS]

\* zx: the target's standardised feature (0 when the target is the only node);
\* the embedding is the two-layer propagation of zx, the score its clipped size
GNNScorer_score(zx, r) ==
  LET iw == _init_weights(r)
      emb == Relu(Relu(zx * iw.weights[1]) * iw.weights[2])
  IN [result |-> [gnn_score |-> Clip(emb, 0, 100), gnn_embedding |-> <<emb>>],
      rng |-> iw.rng]

\* ------------------------------------------------------------- MEV detector
KNOWN_MEV_BOTS ==
     "0x00000000000747d525e29c8b0dfea0a5b4e5dbe1" :> "Flashbots Builder" @@
     "0x98c3d3183c4b8a650614ad179a1a98be0a8d6b8e" :> "MEV Bot" @@
     "0xa57bd00134b2850b2a1c55860c9e9ea100fdd6cf" :> "MEV Bot #1" @@
     "0x000000000035b5e5ad9019092c665357240f594e" :> "Jared (Sandwich Bot)" @@
     "0x6b75d8af000000e20b7a7ddf000ba900b4009a80" :> "MEV Bot #2" @@
     "0xae2fc483527b8ef99eb5d9b44875f005ba1fae13" :> "MEV Searcher" @@
     "0x56178a0d5f301baf6cf3e1cd53d9863437345bf9" :> "Sandwich Bot" @@
     "0x68b3465833fb72a70ecdf485e0e4c7bd8665fc45" :> "Uniswap Router V2 (used by MEV)" @@
     "0xdef1c0ded9bec7f1a1670819833240f027b25eff" :> "0x Exchange Proxy"

DEX_ROUTERS ==
     "0x7a250d5630b4cf539739df2c5dacb4c659f2488d" :> "Uniswap V2 Router" @@
     "0xe592427a0aece92de3edee1f18e0157c05861564" :> "Uniswap V3 Router" @@
     "0x68b3465833fb72a70ecdf485e0e4c7bd8665fc45" :> "Uniswap V3 Router 2" @@
     "0xd9e1ce17f2641f24ae83637ab66a2cca9c378b9f" :> "SushiSwap Router" @@
     "0x1111111254eeb25477b68fb85ed929f73a960582" :> "1inch V5 Router" @@
     "0xdef1c0ded9bec7f1a1670819833240f027b25eff" :> "0x Exchange"

\* a transaction as the explorer lists it: gasPrice in Gwei, input_len the length
\* of the input string ("0x" for a plain transfer), value in whole ETH
TxAt(from, to, block, index, gas, input_len, ts) ==
  [from |-> from, to |-> to, blockNumber |-> block, transactionIndex |-> index,
   gasPrice |-> gas, input_len |-> input_len, timeStamp |-> ts, value |-> 0]

\* the same transaction carrying v ETH
Valued(tx, v) == [tx EXCEPT !.value = v]

_is_dex_call(tx) == Lower(tx.to) \in DOMAIN DEX_ROUTERS /\ tx.input_len > 10

\* sorted(q, key=lambda t: int(t[k])): stable, ascending
RECURSIVE InsertSorted(_, _, _)
InsertSorted(x, q, k) ==
  IF q = <<>> THEN <<x>>
  ELSE IF q[Len(q)][k] <= x[k] THEN Append(q, x)
  ELSE Append(InsertSorted(x, SubSeq(q, 1, Len(q) - 1), k), q[Len(q)])

RECURSIVE SortedBy(_, _)
SortedBy(q, k) ==
  IF q = <<>> THEN <<>>
  ELSE InsertSorted(q[Len(q)], SortedBy(SubSeq(q, 1, Len(q) - 1), k), k)

\* the keys of a dict filled in the order of q: each value once, first seen first
RECURSIVE Distinct(_)
Distinct(q) ==
  IF q = <<>> THEN <<>>
  ELSE LET rest == Distinct(SubSeq(q, 1, Len(q) - 1))
       IN IF \E i \in 1..Len(rest) : rest[i] = q[Len(q)] THEN rest
          ELSE Append(rest, q[Len(q)])

SentBy(address, transactions) ==
  SelectSeq(transactions, LAMBDA tx : Lower(tx.from) = address)

DexCallsBy(address, transactions) ==
  SelectSeq(transactions, LAMBDA tx : Lower(tx.from) = address /\ _is_dex_call(tx))

InBlock(txs, block) == SelectSeq(txs, LAMBDA tx : tx.blockNumber = block)

\* mev_detector.py 101: the distance between the two indices, less one
VictimsBetween(first_idx, last_idx) == last_idx - first_idx - 1

\* mev_detector.py 80-104: the first and the last DEX call of the target in a block
SandwichIn(block, txs_sorted) ==
  LET first == txs_sorted[1]
      last == txs_sorted[Len(txs_sorted)]
  IN IF /\ Lower(first.to) = Lower(last.to)
        /\ last.transactionIndex - first.transactionIndex >= 2
     THEN << [block |-> block,
              front_index |-> first.transactionIndex,
              back_index |-> last.transactionIndex,
              contract |-> first.to,
              victims_between |-> VictimsBetween(first.transactionIndex,
                                                 last.transactionIndex),
              gas_front |-> first.gasPrice,
              gas_back |-> last.gasPrice] >>
     ELSE <<>>

RECURSIVE SandwichesIn(_, _)
SandwichesIn(dex, blocks) ==
  IF blocks = <<>> THEN <<>>
  ELSE LET txs == InBlock(dex, Head(blocks))
       IN (IF Len(txs) < 2 THEN <<>>
           ELSE SandwichIn(Head(blocks), SortedBy(txs, "transactionIndex")))
          \o SandwichesIn(dex, Tail(blocks))

BlocksOf(txs) == Distinct([i \in 1..Len(txs) |-> txs[i].blockNumber])
ContractsOf(txs) == Distinct([i \in 1..Len(txs) |-> Lower(txs[i].to)])

_detect_sandwiches(address, transactions) ==
  LET dex == DexCallsBy(address, transactions)
  IN SandwichesIn(dex, BlocksOf(dex))

\* mev_detector.py 137-149: neighbours in index order, the earlier one paying more
\* than 1.1 times the gas price of the later one
RECURSIVE FrontrunPairs(_, _, _)
FrontrunPairs(block, contract, sorted_txs) ==
  IF Len(sorted_txs) < 2 THEN <<>>
  ELSE (IF 10 * sorted_txs[1].gasPrice > 11 * sorted_txs[2].gasPrice
        THEN << [block |-> block, contract |-> contract,
                 gas_frontrun |-> sorted_txs[1].gasPrice,
                 gas_followup |-> sorted_txs[2].gasPrice] >>
        ELSE <<>>)
       \o FrontrunPairs(block, contract, Tail(sorted_txs))

RECURSIVE FrontrunContracts(_, _, _)
FrontrunContracts(block, txs, contracts) ==
  IF contracts = <<>> THEN <<>>
  ELSE LET ctxs == SelectSeq(txs, LAMBDA tx : Lower(tx.to) = Head(contracts))
       IN (IF Len(ctxs) < 2 \/ Head(contracts) = "" THEN <<>>
           ELSE FrontrunPairs(block, Head(contracts), SortedBy(ctxs, "transactionIndex")))
          \o FrontrunContracts(block, txs, Tail(contracts))

RECURSIVE FrontrunBlocks(_, _)
FrontrunBlocks(sent, blocks) ==
  IF blocks = <<>> THEN <<>>
  ELSE LET txs == InBlock(sent, Head(blocks))
       IN (IF Len(txs) < 2 THEN <<>>
           ELSE FrontrunContracts(Head(blocks), txs, ContractsOf(txs)))
          \o FrontrunBlocks(sent, Tail(blocks))

_detect_frontrunning(address, transactions) ==
  LET sent == SentBy(address, transactions)
  IN FrontrunBlocks(sent, BlocksOf(sent))

RECURSIVE GasSum(_)
GasSum(q) == IF q = <<>> THEN 0 ELSE Head(q).gasPrice + GasSum(Tail(q))

RECURSIVE GasSquares(_)
GasSquares(q) ==
  IF q = <<>> THEN 0 ELSE Head(q).gasPrice * Head(q).gasPrice + GasSquares(Tail(q))

RECURSIVE GasMax(_)
GasMax(q) == IF q = <<>> THEN 0 ELSE Max(Head(q).gasPrice, GasMax(Tail(q)))

\* mev_detector.py 157-185 over every listed transaction, with n the length, s the
\* sum, s2 the sum of squares and mx the largest gas price:
\* cv = std / mean > 1  iff  n * s2 > 2 * s^2;  max > 5 * mean  iff  n * mx > 5 * s
GasOutlier(n, s, s2, mx) == s > 0 /\ (n * s2 > 2 * s * s \/ n * mx > 5 * s)

_analyse_gas_patterns(transactions) ==
  [is_gas_outlier |->
     GasOutlier(Len(transactions), GasSum(transactions), GasSquares(transactions),
                GasMax(transactions))]

\* mev_detector.py 199-206: to, then from, of every listed transaction
RECURSIVE Endpoints(_)
Endpoints(q) ==
  IF q = <<>> THEN <<>>
  ELSE <<Lower(Head(q).to), Lower(Head(q).from)>> \o Endpoints(Tail(q))

KnownBots(transactions) ==
  LET unique == Distinct(SelectSeq(Endpoints(transactions),
                                   LAMBDA a : a \in DOMAIN KNOWN_MEV_BOTS))
  IN [i \in 1..Len(unique) |-> [address |-> unique[i], label |-> KNOWN_MEV_BOTS[unique[i]]]]

\* round(n / m) to the nearest integer, halves to the even one
RoundDiv(n, m) ==
  LET q == n \div m
      r == n % m
  IN IF 2 * r > m \/ (2 * r = m /\ q % 2 = 1) THEN q + 1 ELSE q

\* dex_ratio in thousandths
DexPattern(total_sent, dex_calls, known_bots) ==
  [total_outgoing |-> total_sent,
   dex_calls |-> dex_calls,
   dex_ratio |-> RoundDiv(1000 * dex_calls, Max(total_sent, 1)),
   is_dex_heavy |-> 2 * dex_calls > total_sent /\ dex_calls >= 5,
   known_bot_interactions |-> known_bots]

_analyse_dex_pattern(address, transactions) ==
  DexPattern(Len(SentBy(address, transactions)), Len(DexCallsBy(address, transactions)),
             KnownBots(transactions))

\* mev_detector.py 246-258: three DEX calls within 60 seconds, then skip past them
RECURSIVE ArbSequences(_, _)
ArbSequences(dex_sorted, i) ==
  IF i + 2 > Len(dex_sorted) THEN 0
  ELSE IF dex_sorted[i + 2].timeStamp - dex_sorted[i].timeStamp < 60
       THEN 1 + ArbSequences(dex_sorted, i + 3)
       ELSE ArbSequences(dex_sorted, i + 1)

ArbResult(arb_sequences) ==
  [arb_sequences |-> arb_sequences, is_arb_bot |-> arb_sequences >= 3]

_detect_arb_patterns(address, transactions) ==
  LET dex_txns == DexCallsBy(address, transactions)
  IN IF Len(dex_txns) < 3 THEN ArbResult(0)
     ELSE ArbResult(ArbSequences(SortedBy(dex_txns, "timeStamp"), 1))

BotFlags(bots) ==
  [i \in 1..Len(bots) |-> "Interacted with known MEV bot: " \o bots[i].label]

\* mev_detector.py 294-330: the composite score; the flag of the gas rule is kept
\* without the printed coefficient of variation
MevScore(sandwiches, frontrunning, gas, dex, arb) ==
    (IF sandwiches # <<>> THEN Min(Len(sandwiches) * 15, 35) ELSE 0)
  + (IF frontrunning # <<>> THEN Min(Len(frontrunning) * 10, 25) ELSE 0)
  + (IF dex.is_dex_heavy THEN 15 ELSE 0)
  + (IF dex.known_bot_interactions # <<>>
     THEN Min(Len(dex.known_bot_interactions) * 5, 15) ELSE 0)
  + (IF gas.is_gas_outlier THEN 10 ELSE 0)
  + (IF arb.is_arb_bot THEN 20 ELSE 0)

MevFlags(sandwiches, frontrunning, gas, dex, arb) ==
     (IF sandwiches # <<>>
      THEN <<ToString(Len(sandwiches)) \o " potential sandwich attack(s) detected">>
      ELSE <<>>)
  \o (IF frontrunning # <<>>
      THEN <<ToString(Len(frontrunning)) \o " front-running pattern(s) detected">>
      ELSE <<>>)
  \o (IF dex.is_dex_heavy
      THEN <<"Heavy DEX usage (" \o ToString(RoundDiv(dex.dex_ratio, 10))
             \o "% of outgoing txns)">>
      ELSE <<>>)
  \o BotFlags(dex.known_bot_interactions)
  \o (IF gas.is_gas_outlier THEN <<"Extreme gas price variance">> ELSE <<>>)
  \o (IF arb.is_arb_bot
      THEN <<ToString(arb.arb_sequences) \o " rapid arbitrage sequence(s) detected">>
      ELSE <<>>)

MevReport(sandwiches, frontrunning, gas, dex, arb, mev_score, flags) ==
  [is_mev_bot |-> mev_score >= 40,
   mev_risk_score |-> mev_score,
   sandwiches |-> sandwiches,
   frontrunning |-> frontrunning,
   gas_analysis |-> gas,
   dex_pattern |-> [total_outgoing |-> dex.total_outgoing, dex_calls |-> dex.dex_calls,
                    dex_ratio |-> dex.dex_ratio, is_dex_heavy |-> dex.is_dex_heavy],
   known_bots |-> dex.known_bot_interactions,
   arb_analysis |-> arb,
   mev_flags |-> IF mev_score >= 40 /\ flags = <<>>
                 THEN <<"MEV bot characteristics detected">> ELSE flags]

MevAnalysis(sandwiches, frontrunning, gas, dex, arb) ==
  MevReport(sandwiches, frontrunning, gas, dex, arb,
            Min(MevScore(sandwiches, frontrunning, gas, dex, arb), 100),
            MevFlags(sandwiches, frontrunning, gas, dex, arb))

MevOf(address, transactions) ==
  MevAnalysis(_detect_sandwiches(address, transactions),
              _detect_frontrunning(address, transactions),
              _analyse_gas_patterns(transactions),
              _analyse_dex_pattern(address, transactions),
              _detect_arb_patterns(address, transactions))

detect_mev_activity(address, transactions) == MevOf(Lower(address), transactions)

\* ------------------------------------------------------------- bridge tracker
\* value in whole ETH, timeStamp in seconds (0 when the explorer gives none)
BRIDGE_CONTRACTS ==
     "0x8731d54e9d02c286767d56ac03e8037c07e01e98" :> [name |-> "Stargate Router", protocol |-> "Stargate", type |-> "router"] @@
     "0xdf0770df86a8034b3efef0a1bb3c889b8332ff56" :> [name |-> "Stargate USDC Pool", protocol |-> "Stargate", type |-> "pool"] @@
     "0x101816545f6b2efe8c49d00c015f7d3a5b3e8464" :> [name |-> "Stargate ETH Pool", protocol |-> "Stargate", type |-> "pool"] @@
     "0x5c7bcd6e7de5423a257d81b442095a1a6ced35c5" :> [name |-> "Across SpokePool V2", protocol |-> "Across", type |-> "spokepool"] @@
     "0xe35e9842fceaca96570b734083f4a58e8f7c5f2a" :> [name |-> "Across SpokePool V3", protocol |-> "Across", type |-> "spokepool"] @@
     "0xc186fa914353c44b2e33ebe05f21846f1048beda" :> [name |-> "Across HubPool", protocol |-> "Across", type |-> "hubpool"] @@
     "0xb8901acb165ed027e32754e0ffe830802919727f" :> [name |-> "Hop ETH Bridge", protocol |-> "Hop", type |-> "bridge"] @@
     "0x3666f603cc164936c1b87e207f36beba4ac5f18a" :> [name |-> "Hop USDC Bridge", protocol |-> "Hop", type |-> "bridge"] @@
     "0x3e4a3a4796d16c0cd582c382691998f7c06420b6" :> [name |-> "Hop DAI Bridge", protocol |-> "Hop", type |-> "bridge"] @@
     "0x3ee18b2214aff97000d974cf647e7c347e8fa585" :> [name |-> "Wormhole Token Bridge", protocol |-> "Wormhole", type |-> "bridge"] @@
     "0x98f3c9e6e3face36baad05fe09d375ef1464288b" :> [name |-> "Wormhole Core Bridge", protocol |-> "Wormhole", type |-> "core"] @@
     "0x66a71dcef29a0ffbdbe3c6a460a3b5bc225cd675" :> [name |-> "LayerZero Endpoint", protocol |-> "LayerZero", type |-> "endpoint"] @@
     "0xb6319cc6c8c27a8f5daf0dd3df91ea35c4720dd7" :> [name |-> "LayerZero UltraLight V2", protocol |-> "LayerZero", type |-> "messaging"] @@
     "0x2796317b0ff8538f253012862c06787adfb8ceb6" :> [name |-> "Synapse Bridge", protocol |-> "Synapse", type |-> "bridge"] @@
     "0x1116898dda4015ed8ddefb84b6e8bc24528af2d8" :> [name |-> "Synapse Router", protocol |-> "Synapse", type |-> "router"] @@
     "0x5427fefa711eff984124bfbb1ab6fbf5e3da1820" :> [name |-> "cBridge V2", protocol |-> "Celer", type |-> "bridge"] @@
     "0xb37d31b2a74029b5951a2778f959282e2d518595" :> [name |-> "cBridge PegBridge V2", protocol |-> "Celer", type |-> "pegbridge"] @@
     "0xe95fd76cf16008c12ff3b3a937cb16cd9cc20284" :> [name |-> "Multichain Router V6", protocol |-> "Multichain", type |-> "router"] @@
     "0x6b7a87899490ece95443e979ca9485cbe7e71522" :> [name |-> "Multichain Router V4", protocol |-> "Multichain", type |-> "router"] @@
     "0x80c67432656d59144ceff962e8faf8926599bcf8" :> [name |-> "Orbiter Bridge", protocol |-> "Orbiter", type |-> "bridge"] @@
     "0xe4edb277e41dc89ab076a1f049f4a3efa700bce8" :> [name |-> "Orbiter Maker", protocol |-> "Orbiter", type |-> "maker"] @@
     "0x8898b472c54c31894e3b9bb83cea802a5d0e63c6" :> [name |-> "Connext Diamond", protocol |-> "Connext", type |-> "bridge"] @@
     "0xa0c68c638235ee32657e8f720a23cec1bfc6c9a8" :> [name |-> "Polygon Bridge", protocol |-> "Polygon", type |-> "bridge"] @@
     "0x40ec5b33f54e0e8a33a975908c5ba1c14e5bbbdf" :> [name |-> "Polygon ERC20 Bridge", protocol |-> "Polygon", type |-> "bridge"] @@
     "0x4dbd4fc535ac27206064b68ffcf827b0a60bab3f" :> [name |-> "Arbitrum Inbox", protocol |-> "Arbitrum", type |-> "bridge"] @@
     "0x72ce9c846789fdb6fc1f34ac4ad25dd9ef7031ef" :> [name |-> "Arbitrum Gateway Router", protocol |-> "Arbitrum", type |-> "gateway"] @@
     "0x99c9fc46f92e8a1c0dec1b1747d010903e884be1" :> [name |-> "Optimism L1 Bridge", protocol |-> "Optimism", type |-> "bridge"] @@
     "0x49048044d57e1c92a77f79988d21fa8faf74e97e" :> [name |-> "Base Portal", protocol |-> "Base", type |-> "bridge"]

STARGATE_ROUTER == "0x8731d54e9d02c286767d56ac03e8037c07e01e98"
STARGATE_USDC == "0xdf0770df86a8034b3efef0a1bb3c889b8332ff56"
STARGATE_ETH == "0x101816545f6b2efe8c49d00c015f7d3a5b3e8464"
MULTICHAIN_V6 == "0xe95fd76cf16008c12ff3b3a937cb16cd9cc20284"
POLYGON_BRIDGE == "0xa0c68c638235ee32657e8f720a23cec1bfc6c9a8"

RAPID_FLAG == "Rapid successive bridge transactions (< 1 hour apart)"
DEPOSIT_ONLY_FLAG == "Only bridge deposits detected (funds moving to other chains)"
RISKY_PROTOCOLS == {"Multichain"}

\* bridge_tracker.py 107-112: "" when neither endpoint is a bridge contract
BridgeDirection(address, tx_from, tx_to) ==
  IF tx_to \in DOMAIN BRIDGE_CONTRACTS
  THEN IF tx_from = address THEN "deposit" ELSE "observed"
  ELSE IF tx_from \in DOMAIN BRIDGE_CONTRACTS
  THEN IF tx_to = address THEN "withdrawal" ELSE "observed"
  ELSE ""

BridgeOf(tx_from, tx_to) ==
  IF tx_to \in DOMAIN BRIDGE_CONTRACTS THEN BRIDGE_CONTRACTS[tx_to]
  ELSE BRIDGE_CONTRACTS[tx_from]

\* bridge_tracker.py 114-127
Interaction(tx, bridge_info, direction) ==
  [protocol |-> bridge_info.protocol,
   contract_name |-> bridge_info.name,
   contract_type |-> bridge_info.type,
   direction |-> direction,
   value_eth |-> tx.value,
   timestamp |-> tx.timeStamp,
   block |-> tx.blockNumber]

RECURSIVE BridgeInteractions(_, _)
BridgeInteractions(address, all_txns) ==
  IF all_txns = <<>> THEN <<>>
  ELSE LET tx == Head(all_txns)
           direction == BridgeDirection(address, Lower(tx.from), Lower(tx.to))
       IN (IF direction \in {"", "observed"} THEN <<>>
           ELSE <<Interaction(tx, BridgeOf(Lower(tx.from), Lower(tx.to)), direction)>>)
          \o BridgeInteractions(address, Tail(all_txns))

RECURSIVE VolumeOf(_)
VolumeOf(q) == IF q = <<>> THEN 0 ELSE Head(q).value_eth + VolumeOf(Tail(q))

\* bridge_tracker.py 130-135, 143-149: one protocol's aggregate
ProtocolStat(protocol, own) ==
  [protocol |-> protocol,
   txn_count |-> Len(own),
   volume_eth |-> VolumeOf(own),
   contracts |-> {own[i].contract_name : i \in 1..Len(own)},
   directions |-> {own[i].direction : i \in 1..Len(own)}]

\* sorted(..., key=txn_count, reverse=True): stable, descending
RECURSIVE InsertByCount(_, _)
InsertByCount(x, q) ==
  IF q = <<>> THEN <<x>>
  ELSE IF q[Len(q)].txn_count >= x.txn_count THEN Append(q, x)
  ELSE Append(InsertByCount(x, SubSeq(q, 1, Len(q) - 1)), q[Len(q)])

RECURSIVE BridgesUsed(_, _)
BridgesUsed(interactions, protocols) ==
  IF protocols = <<>> THEN <<>>
  ELSE InsertByCount(
         ProtocolStat(protocols[Len(protocols)],
                      SelectSeq(interactions,
                                LAMBDA b : b.protocol = protocols[Len(protocols)])),
         BridgesUsed(interactions, SubSeq(protocols, 1, Len(protocols) - 1)))

RECURSIVE TxnCount(_)
TxnCount(q) == IF q = <<>> THEN 0 ELSE Head(q).txn_count + TxnCount(Tail(q))

RECURSIVE StatVolume(_)
StatVolume(q) == IF q = <<>> THEN 0 ELSE Head(q).volume_eth + StatVolume(Tail(q))

\* bridge_tracker.py 184-185: the neighbours (in time order) less than an hour apart
RapidCount(timestamps) ==
  Cardinality({i \in 1..(Len(timestamps) - 1) : timestamps[i + 1] - timestamps[i] < 3600})

\* bridge_tracker.py 181-188; sorted_interactions is in time order
IsRapid(sorted_interactions) ==
  /\ Len(sorted_interactions) >= 3
  /\ LET with_time == SelectSeq(sorted_interactions, LAMBDA b : b.timestamp # 0)
     IN RapidCount([i \in 1..Len(with_time) |-> with_time[i].timestamp]) >= 3

AllDirections(bridges_used) ==
  UNION {bridges_used[i].directions : i \in 1..Len(bridges_used)}

RiskyUsed(bridges_used) ==
  SelectSeq(bridges_used, LAMBDA b : b.protocol \in RISKY_PROTOCOLS)

\* bridge_tracker.py 155-206
BridgeScore(bridges_used, total_bridge_txns, total_bridge_volume, rapid) ==
    (IF Len(bridges_used) >= 4 THEN 25 ELSE IF Len(bridges_used) >= 2 THEN 10 ELSE 0)
  + (IF total_bridge_volume > 100 THEN 20 ELSE IF total_bridge_volume > 10 THEN 10 ELSE 0)
  + (IF total_bridge_txns > 20 THEN 15 ELSE IF total_bridge_txns > 5 THEN 5 ELSE 0)
  + (IF rapid THEN 20 ELSE 0)
  + (IF AllDirections(bridges_used) = {"deposit"} THEN 10 ELSE 0)
  + 10 * Len(RiskyUsed(bridges_used))

RiskyFlags(risky) ==
  [i \in 1..Len(risky) |-> "Used compromised bridge: " \o risky[i].protocol]

BridgeFlags(bridges_used, total_bridge_txns, total_bridge_volume, rapid) ==
     (IF Len(bridges_used) >= 4
      THEN <<"Uses " \o ToString(Len(bridges_used))
             \o " different bridge protocols (potential obfuscation)">>
      ELSE IF Len(bridges_used) >= 2
      THEN <<"Uses " \o ToString(Len(bridges_used)) \o " bridge protocols">>
      ELSE <<>>)
  \o (IF total_bridge_volume > 100
      THEN <<"Large bridge volume: " \o ToString(total_bridge_volume) \o ".00 ETH">>
      ELSE <<>>)
  \o (IF total_bridge_txns > 20
      THEN <<"Frequent bridge usage: " \o ToString(total_bridge_txns) \o " transactions">>
      ELSE <<>>)
  \o (IF rapid THEN <<RAPID_FLAG>> ELSE <<>>)
  \o (IF AllDirections(bridges_used) = {"deposit"} THEN <<DEPOSIT_ONLY_FLAG>> ELSE <<>>)
  \o RiskyFlags(RiskyUsed(bridges_used))

BridgeReport(bridges_used, total_bridge_txns, total_bridge_volume, rapid, sorted_interactions) ==
  [bridges_used |-> bridges_used,
   total_bridge_txns |-> total_bridge_txns,
   total_bridge_volume |-> total_bridge_volume,
   bridge_risk_score |->
     Min(BridgeScore(bridges_used, total_bridge_txns, total_bridge_volume, rapid), 100),
   bridge_flags |-> BridgeFlags(bridges_used, total_bridge_txns, total_bridge_volume, rapid),
   bridge_timeline |-> SubSeq(sorted_interactions, 1, Min(50, Len(sorted_interactions)))]

BridgeSummary(bridges_used, sorted_interactions) ==
  BridgeReport(bridges_used, TxnCount(bridges_used), StatVolume(bridges_used),
               IsRapid(sorted_interactions), sorted_interactions)

BridgeAnalysis(interactions) ==
  BridgeSummary(
    BridgesUsed(interactions,
                Distinct([i \in 1..Len(interactions) |-> interactions[i].protocol])),
    SortedBy(interactions, "timestamp"))

detect_bridge_usage(address, transactions, token_transfers) ==
  BridgeAnalysis(BridgeInteractions(Lower(address), transactions \o token_transfers))

\* ------------------------------------------------------- temporal anomalies
\* a transaction whose timeStamp is 0 stands for one without a timestamp:
\* tx.get("timeStamp", 0) is 0 for it and tx.get("timeStamp") is falsy

\* temporal_anomaly.py 30: the UTC calendar day of ts, as days since the epoch
\* (the "%Y-%m-%d" strings sort in the same order)
DayOf(ts) == ts \div 86400

Timestamped(transactions) == SelectSeq(transactions, LAMBDA tx : tx.timeStamp # 0)

OnDay(transactions, day) ==
  SelectSeq(Timestamped(transactions), LAMBDA tx : DayOf(tx.timeStamp) = day)

RECURSIVE ValueSum(_)
ValueSum(q) == IF q = <<>> THEN 0 ELSE Head(q).value + ValueSum(Tail(q))

\* temporal_anomaly.py 49-56: the other side of each transaction
OtherSides(txs, address) ==
  {IF Lower(tx.from) = address THEN Lower(tx.to) ELSE Lower(tx.from) : tx \in Range(txs)}
  \ {""}

\* temporal_anomaly.py 31-60: the bucket of one day; the listed transactions
\* carry no gasUsed, so gas_total stays 0
Bucket(day, txs, address) ==
  LET out == SelectSeq(txs, LAMBDA tx : Lower(tx.from) = address)
  IN [date |-> day, tx_count |-> Len(txs), volume |-> ValueSum(txs),
      in_count |-> Len(txs) - Len(out), out_count |-> Len(out),
      gas_total |-> 0, unique_addrs |-> Cardinality(OtherSides(txs, address))]

\* temporal_anomaly.py 21-62 followed by list(daily.values()): one bucket per
\* day that has a transaction, in the order of the days
_to_daily_series(transactions, address) ==
  LET days == {DayOf(tx.timeStamp) : tx \in Range(Timestamped(transactions))}
  IN SortedBy(SetToSeq({Bucket(d, OnDay(transactions, d), Lower(address)) : d \in days}),
              "date")

\* temporal_anomaly.py 65-70: the values of the buckets, in the order of the days
_fill_gaps(series, key) ==
  LET dates == SortedBy(series, "date")
  IN [i \in 1..Len(dates) |-> dates[i][key]]

\* temporal_anomaly.py 81-82, 112-113, 159-160: a series shorter than min_len
\* gives no finding; the statistics of longer series are not computed here
LONG_SERIES == <<"series of min_len days or more">>
Findings(y, min_len) == IF Len(y) < min_len THEN <<>> ELSE LONG_SERIES

_zscore_anomalies(y, window) == Findings(y, window + 1)
_cusum(y) == Findings(y, 5)
_ema_regimes(y, long_span) == Findings(y, long_span + 2)

\* temporal_anomaly.py 193-195
SortedTimestamps(transactions) ==
  LET byTime == SortedBy(Timestamped(transactions), "timeStamp")
  IN [i \in 1..Len(byTime) |-> byTime[i].timeStamp]

\* np.diff
Diffs(timestamps) == [i \in 1..(Len(timestamps) - 1) |-> timestamps[i + 1] - timestamps[i]]

\* temporal_anomaly.py 204-211: the streak of bursts that ends at gap i
RECURSIVE StreakAt(_, _)
StreakAt(is_burst, i) ==
  IF i = 0 \/ ~is_burst[i] THEN 0 ELSE StreakAt(is_burst, i - 1) + 1

MaxStreak(is_burst) ==
  IF is_burst = <<>> THEN 0
  ELSE CHOOSE m \in 0..Len(is_burst) :
         /\ \E i \in 0..Len(is_burst) : StreakAt(is_burst, i) = m
         /\ \A i \in 0..Len(is_burst) : StreakAt(is_burst, i) <= m

RECURSIVE IntSum(_)
IntSum(q) == IF q = <<>> THEN 0 ELSE Head(q) + IntSum(Tail(q))

\* temporal_anomaly.py 197: what a wallet with fewer than two timestamps gets
NO_BURSTS == [burst_count |-> 0, longest_burst |-> 0, avg_burst_gap |-> 0]

\* temporal_anomaly.py 199-221: avg_burst_gap_sec in tenths of a second,
\* burst_pct in tenths of a percent
BurstStats(diffs, threshold_seconds) ==
  LET is_burst == [i \in 1..Len(diffs) |-> diffs[i] < threshold_seconds]
      burst_gaps == SelectSeq(diffs, LAMBDA d : d < threshold_seconds)
  IN [burst_count |-> Len(burst_gaps),
      longest_burst |-> MaxStreak(is_burst) + 1,
      avg_burst_gap_sec |-> IF Len(burst_gaps) > 0
                            THEN RoundDiv(10 * IntSum(burst_gaps), Len(burst_gaps)) ELSE 0,
      burst_pct |-> RoundDiv(1000 * Len(burst_gaps), Len(diffs))]

\* temporal_anomaly.py 190-221
_burst_intervals(transactions, address, threshold_seconds) ==
  LET timestamps == SortedTimestamps(transactions)
  IN IF Len(timestamps) < 2 THEN NO_BURSTS
     ELSE BurstStats(Diffs(timestamps), threshold_seconds)

\* temporal_anomaly.py 272-294
TemporalScore(z_anomalies, z_volume, cp_txcount, cp_volume, regimes, burst_pct) ==
  Min(100,
      Min(Len(z_anomalies) * 5, 25) + Min(Len(z_volume) * 5, 20)
      + Min((Len(cp_txcount) + Len(cp_volume)) * 8, 20) + Min(Len(regimes) * 5, 15)
      + (IF burst_pct > 500 THEN 20 ELSE IF burst_pct > 250 THEN 12
         ELSE IF burst_pct > 100 THEN 6 ELSE 0))

\* temporal_anomaly.py 287: bursts["burst_pct"] on a dict without that key
KEY_ERROR == [raised |-> "KeyError: 'burst_pct'"]
Raises(result) == "raised" \in DOMAIN result

\* temporal_anomaly.py 241-307 once the two series and the bursts are known
TemporalReport(daily_list, tx_counts, volumes, bursts) ==
  IF "burst_pct" \notin DOMAIN bursts THEN KEY_ERROR
  ELSE [temporal_risk_score |->
          TemporalScore(_zscore_anomalies(tx_counts, 7), _zscore_anomalies(volumes, 7),
                        _cusum(tx_counts), _cusum(volumes), _ema_regimes(tx_counts, 10),
                        bursts.burst_pct),
        zscore_anomalies |-> _zscore_anomalies(tx_counts, 7),
        volume_anomalies |-> _zscore_anomalies(volumes, 7),
        changepoints_txcount |-> _cusum(tx_counts),
        changepoints_volume |-> _cusum(volumes),
        regime_shifts |-> _ema_regimes(tx_counts, 10),
        burst_analysis |-> bursts,
        days_analyzed |-> Len(daily_list),
        total_days_span |-> Len(daily_list),
        daily_series |-> daily_list]

\* temporal_anomaly.py 244-245: the series handed to the detectors
SeriesOf(daily_list) ==
  [tx_counts |-> _fill_gaps(daily_list, "tx_count"),
   volumes |-> _fill_gaps(daily_list, "volume")]

TemporalOver(daily_list, series, transactions, address) ==
  TemporalReport(daily_list, series.tx_counts, series.volumes,
                 _burst_intervals(transactions, address, 300))

\* temporal_anomaly.py 226-307
detect_temporal_anomalies(address, transactions) ==
  TemporalOver(_to_daily_series(transactions, address),
               SeriesOf(_to_daily_series(transactions, address)), transactions, address)

\* ------------------------------------------------------- feature extraction
\* features.py 49: the gaps between neighbouring timestamps, [0] when there are
\* fewer than two timestamps
TimeDiffs(timestamps) == IF Len(timestamps) > 1 THEN Diffs(timestamps) ELSE <<0>>

\* features.py 73-74: the share of the gaps under five minutes, in percent
BurstRatio(time_diffs) ==
  (100 * Len(SelectSeq(time_diffs, LAMBDA d : d < 300))) \div Max(Len(time_diffs), 1)

\* features.py 130-147
_empty_features(address) ==
  [address |-> address, tx_count |-> 0, sent_count |-> 0, recv_count |-> 0,
   lifespan_days |-> 0, min_time_between_tx |-> 0, burst_ratio |-> 0]

\* features.py 22-127: the counts and the time features; lifespan_days in whole
\* days
WalletFeatures(address, transactions, timestamps) ==
  [address |-> address,
   tx_count |-> Len(transactions),
   sent_count |-> Len(SelectSeq(transactions, LAMBDA tx : Lower(tx.from) = address)),
   recv_count |-> Len(SelectSeq(transactions, LAMBDA tx : Lower(tx.to) = address)),
   lifespan_days |-> IF Len(timestamps) > 1
                     THEN (timestamps[Len(timestamps)] - timestamps[1]) \div 86400 ELSE 0,
   min_time_between_tx |-> CHOOSE d \in Range(TimeDiffs(timestamps)) :
                              \A o \in Range(TimeDiffs(timestamps)) : d <= o,
   burst_ratio |-> BurstRatio(TimeDiffs(timestamps))]

extract_wallet_features(address, transactions) ==
  IF transactions = <<>> THEN _empty_features(Lower(address))
  ELSE WalletFeatures(Lower(address), transactions, SortedTimestamps(transactions))

\* --------------------------------------------------------- cluster analysis
\* the transaction graph G is the list of its edges, parallel edges listed once
\* each; a ratio is the pair of its numerator and its denominator
NodesOf(G) == {G[i].from : i \in 1..Len(G)} \cup {G[i].to : i \in 1..Len(G)}

\* G.subgraph(nodes): the nodes of G among them and every edge between them
Subgraph(G, nodes) ==
  [nodes |-> nodes \cap NodesOf(G),
   edges |-> SelectSeq(G, LAMBDA e : e.from \in nodes /\ e.to \in nodes)]

in_degree(G, node) == Len(SelectSeq(G, LAMBDA e : e.to = node))
out_degree(G, node) == Len(SelectSeq(G, LAMBDA e : e.from = node))

\* the nodes one edge away from C, in either direction
Neighbours(edges, C) ==
  {edges[i].to : i \in {k \in 1..Len(edges) : edges[k].from \in C}}
  \cup {edges[i].from : i \in {k \in 1..Len(edges) : edges[k].to \in C}}

RECURSIVE Component(_, _)
Component(edges, C) ==
  IF Neighbours(edges, C) \subseteq C THEN C
  ELSE Component(edges, C \cup Neighbours(edges, C))

\* nx.weakly_connected_components
weakly_connected_components(sub) == {Component(sub.edges, {n}) : n \in sub.nodes}

\* cluster_analysis.py 33-74: the clusters among the anomalous wallets, each with
\* its induced subgraph; their order is left out
find_anomalous_clusters(G, anomalous_wallets) ==
  {[wallets |-> component, subgraph |-> Subgraph(G, component)] :
     component \in weakly_connected_components(Subgraph(G, anomalous_wallets))}

RECURSIVE DegreeSum(_, _)
\* cluster_analysis.py 90-92
DegreeSum(G, nodes) ==
  IF nodes = {} THEN 0
  ELSE LET node == CHOOSE n \in nodes : TRUE
       IN in_degree(G, node) + out_degree(G, node) + DegreeSum(G, nodes \ {node})

\* variant: the degree sum is taken for the number of touching edges
_internal_tx_ratio_degrees(cluster_subgraph, G) ==
  [num |-> Len(cluster_subgraph.edges),
   den |-> Max(DegreeSum(G, cluster_subgraph.nodes), 1)]

\* cluster_analysis.py 77-99
_internal_tx_ratio(cluster_subgraph, G) ==
  [num |-> Len(cluster_subgraph.edges),
   den |-> Max(DegreeSum(G, cluster_subgraph.nodes) - Len(cluster_subgraph.edges), 1)]

\* cluster_analysis.py 133-159: each cluster with its ratio
score_clusters(clusters, G) ==
  {[wallets |-> c.wallets, cluster_size |-> Cardinality(c.wallets),
    internal_tx_ratio |-> _internal_tx_ratio(c.subgraph, G)] : c \in clusters}

\* ------------------------------------------------------- anomaly pipeline
\* features.py 198-205: the columns compute_wallet_features fills in
GRAPH_COLUMNS ==
  {"in_degree", "out_degree", "total_in_amount", "total_out_amount",
   "transaction_count", "pass_through_score", "avg_time_gap"}

\* features.py 151-164: the columns of extract_wallet_features
FEATURE_COLUMNS ==
  {"tx_count", "sent_count", "recv_count",
   "total_sent_eth", "total_recv_eth", "net_flow_eth", "flow_ratio",
   "mean_value", "median_value", "std_value", "max_value", "min_value",
   "mean_sent", "mean_recv",
   "unique_counterparties", "unique_targets", "unique_sources",
   "repeated_targets", "self_transfers",
   "active_days", "lifespan_days",
   "mean_time_between_tx", "std_time_between_tx", "min_time_between_tx",
   "burst_ratio",
   "mean_gas_price", "std_gas_price", "mean_gas_used",
   "contract_call_ratio", "failed_tx_ratio", "round_value_ratio",
   "tx_per_day", "value_per_counterparty"}

\* graph_builder.py 20-50: one edge per transaction, the endpoints lower-cased
build_transaction_graph(transactions) ==
  [i \in 1..Len(transactions) |->
     [from |-> Lower(transactions[i].from), to |-> Lower(transactions[i].to),
      value |-> transactions[i].value, timestamp |-> transactions[i].timestamp]]

\* graph_builder.py 53-61, the two counts
get_graph_summary(G) ==
  [num_wallets |-> Cardinality(NodesOf(G)), num_transactions |-> Len(G)]

Abs(x) == IF x < 0 THEN -x ELSE x

\* features.py 186-196: the mean gap between the timestamps of the wallet's
\* edges, in whole seconds
AvgTimeGap(edges) ==
  LET sorted == SortedBy(edges, "timestamp")
  IN IF Len(edges) >= 2
     THEN (sorted[Len(sorted)].timestamp - sorted[1].timestamp) \div (Len(sorted) - 1)
     ELSE 0

\* features.py 177-205: the row of one wallet
WalletRow(G, wallet) ==
  LET ins == SelectSeq(G, LAMBDA e : e.to = wallet)
      outs == SelectSeq(G, LAMBDA e : e.from = wallet)
  IN [in_degree |-> Len(ins), out_degree |-> Len(outs),
      total_in_amount |-> ValueSum(ins), total_out_amount |-> ValueSum(outs),
      transaction_count |-> Len(ins) + Len(outs),
      pass_through_score |-> Abs(ValueSum(ins) - ValueSum(outs)),
      avg_time_gap |-> AvgTimeGap(ins \o outs)]

\* features.py 172-209: a frame is its rows by wallet; a frame built from no
\* record has no "wallet" column to index by
compute_wallet_features(G) ==
  IF NodesOf(G) = {} THEN [raised |-> "KeyError: 'wallet'"]
  ELSE [wallet \in NodesOf(G) |-> WalletRow(G, wallet)]

Columns(df) == UNION {DOMAIN df[wallet] : wallet \in DOMAIN df}

\* anomaly_detection.py 27-40: df[FEATURE_COLUMNS] needs every listed column;
\* the standardised values themselves are not computed
scale_features(df) ==
  IF FEATURE_COLUMNS \subseteq Columns(df)
  THEN [X |-> [wallet \in DOMAIN df |-> [c \in FEATURE_COLUMNS |-> df[wallet][c]]]]
  ELSE [raised |-> "KeyError: FEATURE_COLUMNS not in index"]

\* anomaly_detection.py 115-132: the forest's labels are given, its scores are
\* left out
detect_anomalies(df, outliers) ==
  IF Raises(scale_features(df)) THEN scale_features(df)
  ELSE [wallet \in DOMAIN df |-> [is_anomalous |-> wallet \in outliers]]

\* pipeline.py 139-180
PipelineOutput(G, scored_df) ==
  LET anomalous == {wallet \in DOMAIN scored_df : scored_df[wallet].is_anomalous}
  IN [graph_summary |-> get_graph_summary(G),
      total_wallets |-> Cardinality(DOMAIN scored_df),
      anomalous_wallets |-> Cardinality(anomalous),
      clusters |-> score_clusters(find_anomalous_clusters(G, anomalous), G),
      wallet_scores |-> scored_df]

\* pipeline.py 92-111
PipelineScored(G, feature_df, outliers) ==
  IF Raises(feature_df) THEN feature_df
  ELSE IF Raises(detect_anomalies(feature_df, outliers))
  THEN detect_anomalies(feature_df, outliers)
  ELSE PipelineOutput(G, detect_anomalies(feature_df, outliers))

\* pipeline.py 29-189
run_pipeline(transactions, outliers) ==
  PipelineScored(build_transaction_graph(transactions),
                 compute_wallet_features(build_transaction_graph(transactions)),
                 outliers)

\* ------------------------------------------------------------ fund tracer
\* the chain is the list of its transfers, values in hundredths of an ETH; the
\* explorer lists for an address the transfers it sent or received
TransfersOf(chain, addr) ==
  SelectSeq(chain, LAMBDA tx : Lower(tx.from) = addr \/ Lower(tx.to) = addr)

\* list.sort(key=value, reverse=True): descending, equal values in listed order
RECURSIVE InsertDescending(_, _)
InsertDescending(x, q) ==
  IF q = <<>> THEN <<x>>
  ELSE IF q[Len(q)].value >= x.value THEN Append(q, x)
  ELSE Append(InsertDescending(x, SubSeq(q, 1, Len(q) - 1)), q[Len(q)])

RECURSIVE SortedDescending(_)
SortedDescending(q) ==
  IF q = <<>> THEN <<>>
  ELSE InsertDescending(q[Len(q)], SortedDescending(SubSeq(q, 1, Len(q) - 1)))

\* tracer.py 68-85: the transfers followed from addr
Relevant_txns(p, addr) ==
  LET relevant ==
        SelectSeq(TransfersOf(p.chain, addr),
                  LAMBDA tx : /\ IF p.direction = "out" THEN Lower(tx.from) = addr
                                 ELSE Lower(tx.to) = addr
                              /\ tx.value >= p.min_value)
      sorted == SortedDescending(relevant)
  IN SubSeq(sorted, 1, Min(p.max_branches, Len(sorted)))

NextAddr(p, tx) == IF p.direction = "out" THEN Lower(tx.to) ELSE Lower(tx.from)

\* tracer.py 51-58
TraceNode(addr, depth) ==
  [address |-> addr, label |-> lookup_address(addr).label, depth |-> depth,
   children |-> <<>>]

\* the state shared by the nested calls: visited, total_nodes, total_value
TraceStart == [visited |-> {}, total_nodes |-> 0, total_value |-> 0]

RECURSIVE _trace(_, _, _, _)
RECURSIVE TraceChildren(_, _, _, _, _)

\* tracer.py 87-101: the loop over the transfers still to follow; acc holds the
\* node built so far and the shared state
TraceChildren(p, addr, depth, relevant, acc) ==
  IF relevant = <<>> THEN acc
  ELSE LET tx == Head(relevant)
           st == [acc.st EXCEPT !.total_value = @ + tx.value]
           next_addr == NextAddr(p, tx)
       IN IF next_addr = "" \/ next_addr = addr
          THEN TraceChildren(p, addr, depth, Tail(relevant), [acc EXCEPT !.st = st])
          ELSE LET sub == _trace(p, next_addr, depth + 1, st)
                   child == [address |-> sub.node.address, label |-> sub.node.label,
                             depth |-> sub.node.depth, children |-> sub.node.children,
                             value |-> tx.value]
               IN TraceChildren(p, addr, depth, Tail(relevant),
                                [node |-> [acc.node EXCEPT !.children = Append(@, child)],
                                 st |-> sub.st])

\* tracer.py 47-103
_trace(p, addr, depth, st0) ==
  LET st == [st0 EXCEPT !.total_nodes = @ + 1]
      node == TraceNode(addr, depth)
  IN IF depth >= p.max_depth \/ addr \in st.visited
     THEN [node |-> node, st |-> st]
     ELSE TraceChildren(p, addr, depth, Relevant_txns(p, addr),
                        [node |-> node, st |-> [st EXCEPT !.visited = @ \cup {addr}]])

\* tracer.py 105-119
TraceResult(p, address, traced) ==
  [root |-> address, direction |-> p.direction, max_depth |-> p.max_depth,
   tree |-> traced.node,
   summary |-> [total_nodes |-> traced.st.total_nodes,
                unique_addresses |-> Cardinality(traced.st.visited),
                total_value_traced |-> traced.st.total_value]]

\* tracer.py 42
ClampDepth(max_depth) == Max(1, Min(max_depth, 5))

\* tracer.py 17-119
trace_fund_flow(chain, address, max_depth, min_value, max_branches, direction) ==
  LET p == [chain |-> chain, max_depth |-> ClampDepth(max_depth),
            min_value |-> min_value, max_branches |-> max_branches,
            direction |-> direction]
  IN TraceResult(p, Lower(address), _trace(p, Lower(address), 0, TraceStart))

\* -------------------------------------------------------------- label store
\* a wallet argument is [lc |-> its text lower-cased and without the blanks
\* around it, up |-> it has upper-case letters, pad |-> it has blanks around it]
Padded(t) == [lc |-> t, up |-> TRUE, pad |-> TRUE]
Plain(t) == [lc |-> t, up |-> FALSE, pad |-> FALSE]

\* wallet.lower().strip()
WalletKey(wallet) == wallet.lc

LabelEntry(label, source, confidence) ==
  [label |-> label, source |-> source, confidence |-> confidence]

\* variant: an equal confidence replaces the entry too
LabelStore_add_atleast(store, wallet, label, source, confidence) ==
  IF WalletKey(wallet) \notin DOMAIN store
     \/ confidence >= store[WalletKey(wallet)].confidence
  THEN (WalletKey(wallet) :> LabelEntry(label, source, confidence)) @@ store
  ELSE store

\* label_store.py 59-75: confidences in percent
LabelStore_add(store, wallet, label, source, confidence) ==
  IF WalletKey(wallet) \notin DOMAIN store
     \/ confidence > store[WalletKey(wallet)].confidence
  THEN (WalletKey(wallet) :> LabelEntry(label, source, confidence)) @@ store
  ELSE store

\* label_store.py 94-96
LabelStore_get(store, wallet) ==
  IF WalletKey(wallet) \in DOMAIN store THEN store[WalletKey(wallet)] ELSE None

\* ------------------------------------------------- what the outside world answers
MB_BOT == "0x98c3d3183c4b8a650614ad179a1a98be0a8d6b8e"
MB_JARED == "0x000000000035b5e5ad9019092c665357240f594e"
UNISWAP_V2 == "0x7a250d5630b4cf539739df2c5dacb4c659f2488d"
UNISWAP_V3_2 == "0x68b3465833fb72a70ecdf485e0e4c7bd8665fc45"

\* the input of a swap call and of a plain transfer, as lengths of the hex string
SWAP_INPUT == 138
NO_INPUT == 2

\* a plain transfer of 1 ETH at 20 Gwei, the n-th of its list, one block and one
\* minute after the one before
Tx(from, to, n) == Valued(TxAt(from, to, 400 + n, 3, 20, NO_INPUT, 1700000000 + 60 * n), 1)

\* two swap calls of the wallet to router r in one block, at indices 5 and 9
Front(t, r, block, gas, ts) == TxAt(Raw(t), r, block, 5, gas, SWAP_INPUT, ts)
Back(t, r, block, gas, ts) == TxAt(Raw(t), r, block, 9, gas, SWAP_INPUT, ts)

\* a wallet that sandwiches in n blocks in a row, the blocks `gap` seconds apart
RECURSIVE BusyList(_, _, _, _)
BusyList(t, r, n, gap) ==
  IF n = 0 THEN <<>>
  ELSE BusyList(t, r, n - 1, gap)
       \o <<Front(t, r, 600 + n, 20, gap * n), Back(t, r, 600 + n, 20, gap * n)>>

\* fetch outputs for a target t: normal, internal and token lists, the number of
\* neighbours whose fetch returned transactions, and the target's standardised
\* feature; the fourth wallet sandwiches in three blocks through a router that
\* the explorer lists in checksum case, and deposits tokens into two bridges
Histories(t) ==
  { [normal |-> <<>>, internal |-> <<>>, token |-> <<>>, nbr |-> 0, zx |-> 0],
    [normal |-> <<>>,
     internal |-> <<Tx(Raw(ADDR_BINANCE), Raw(t), 1), Tx(Raw(ADDR_BINANCE), Raw(t), 2)>>,
     token |-> <<>>, nbr |-> 0, zx |-> 0],
    [normal |-> <<Tx(Raw(t), Mixed(ADDR_BINANCE), 1)>>,
     internal |-> <<Tx(Raw(ADDR_BINANCE), Raw(t), 2)>>,
     token |-> <<Tx(Raw(t), Raw(ADDR_BINANCE), 3)>>, nbr |-> 1, zx |-> 1],
    [normal |-> <<Tx(Raw(t), Raw(ADDR_MIXER), 1), Tx(Mixed(ADDR_LAZARUS), Raw(t), 2)>>
                \o BusyList(t, Mixed(UNISWAP_V3_2), 3, 100),
     internal |-> <<>>,
     token |-> <<Tx(Raw(t), Raw(STARGATE_ROUTER), 3), Tx(Raw(t), Mixed(POLYGON_BRIDGE), 4)>>,
     nbr |-> 2, zx |-> 1],
    [normal |-> <<Tx(Mixed(ADDR_TORNADO), Raw(t), 1), Tx(Raw(t), Raw(""), 2)>>,
     internal |-> <<>>, token |-> <<>>, nbr |-> 0, zx |-> 0] }

F_QUIET ==
  [round_value_ratio |-> 0, burst_ratio |-> 0, self_transfers |-> 0, flow_ratio |-> 1,
   failed_tx_ratio |-> 0, tx_count |-> 2, unique_counterparties |-> 2,
   lifespan_days |-> 30, max_value |-> 1, contract_call_ratio |-> 0]
F_ROUND ==
  [round_value_ratio |-> 100, burst_ratio |-> 0, self_transfers |-> 0, flow_ratio |-> 100,
   failed_tx_ratio |-> 0, tx_count |-> 2, unique_counterparties |-> 1,
   lifespan_days |-> 0, max_value |-> 50, contract_call_ratio |-> 100]
F_BURST ==
  [round_value_ratio |-> 100, burst_ratio |-> 100, self_transfers |-> 1, flow_ratio |-> 100,
   failed_tx_ratio |-> 100, tx_count |-> 2, unique_counterparties |-> 1,
   lifespan_days |-> 0, max_value |-> 50, contract_call_ratio |-> 0]

FeatureChoices == {F_QUIET, F_ROUND, F_BURST}
MlChoices == {0, 50, 100}

\* the scoring step either raises or extracts f and has the forest score ml
ScorerOutcomes ==
  {[raises |-> TRUE, f |-> F_QUIET, ml |-> 0]}
  \cup {[raises |-> FALSE, f |-> f, ml |-> ml] : f \in FeatureChoices, ml \in MlChoices}

\* each detector either raises or returns its result for the fetched history
DetectorOutcomes ==
  [gnn : {"raise", "ok"}, temporal : {"raise", "ok"},
   mev : {"raise", "ok"}, bridge : {"raise", "ok"}]

QUIET_RUN == [gnn |-> "ok", temporal |-> "ok", mev |-> "ok", bridge |-> "ok"]

REASON == "invalid literal for int() with base 10"

Inputs ==
  { Raw(ADDR_LAZARUS), Mixed(ADDR_TORNADO), Raw(ADDR_MIXER), Raw(ADDR_SCAM),
    Raw(ADDR_PLAIN), Raw(BAD_NONHEX), Raw(BAD_SHORT), Raw(ENS_NAME) }

\* what resolve_ens answers for an ENS name
EnsAnswers(a) == IF is_ens_name(a) THEN {None, ENS_TARGET} ELSE {None}

\* ------------------------------------------------------------- ENS resolver
resolve_input(user_input, ens_answer) ==
  IF is_ens_name(user_input)
  THEN [address |-> ens_answer, resolved |-> ens_answer # None]
  ELSE IF is_address(user_input)
  THEN [address |-> Lower(user_input), resolved |-> TRUE]
  ELSE [address |-> None, resolved |-> FALSE]

TargetOf(a, ens_answer) ==
  LET resolved == resolve_input(a, ens_answer)
  IN IF resolved.resolved /\ resolved.address # None
     THEN resolved.address ELSE Lower(a)

AllEnvs ==
  UNION { UNION { {[addr |-> a, ens |-> n, hist |-> h, sc |-> s, det |-> d] :
                     h \in Histories(TargetOf(a, n)),
                     s \in ScorerOutcomes, d \in DetectorOutcomes}
                  : n \in EnsAnswers(a) } : a \in Inputs }

\* a history without transactions leaves the scorer and the detectors unused
Relevant(e) ==
  e.hist.normal \o e.hist.internal = <<>> =>
    e.sc = [raises |-> FALSE, f |-> F_QUIET, ml |-> 0] /\ e.det = QUIET_RUN

Envs == {e \in AllEnvs : Relevant(e)}
BatchEnvs == {e \in Envs : e.det = QUIET_RUN}

NoEnv == [addr |-> Raw(""), ens |-> None]
NoReport == [kind |-> "none"]
NoPrev == [kind |-> "none"]

\* ------------------------------------------------------------- orchestrator
OFAC_FLAG == "ADDRESS IS ON OFAC SANCTIONS LIST"
NO_TX_FLAG == "No transactions found on this chain for this address"

\* main.py 231-239: lower-cased endpoints of the normal transactions, target excluded
CounterpartyAddrs(normal_txns, target_address) ==
  {a \in {Lower(normal_txns[i].from) : i \in 1..Len(normal_txns)}
         \cup {Lower(normal_txns[i].to) : i \in 1..Len(normal_txns)} :
     a # "" /\ a # target_address}

\* variant: the no-transaction report ignores the sanctions modifier
NoDataReport_zero(target_address, sanctions_result, token_txns) ==
  [kind |-> "analyze", path |-> "no_data",
   address |-> target_address,
   risk_score |-> 0,
   risk_label |-> IF sanctions_result.is_sanctioned THEN "Critical Risk" ELSE "No Data",
   ml_raw_score |-> 0,
   heuristic_score |-> 0,
   flags |-> IF sanctions_result.is_sanctioned THEN <<OFAC_FLAG, NO_TX_FLAG>>
             ELSE <<NO_TX_FLAG>>,
   neighbors_analyzed |-> 0,
   tx_count |-> 0,
   internal_tx_count |-> 0,
   token_transfers |-> Len(token_txns),
   sanctions |-> sanctions_result]

\* main.py 177-210: the report for a target without normal and internal transactions
NoDataReport(target_address, sanctions_result, token_txns) ==
  LET no_data_score == sanctions_result.risk_modifier
      base == <<NO_TX_FLAG>>
      no_data_flags ==
        IF sanctions_result.is_sanctioned THEN <<OFAC_FLAG>> \o base
        ELSE IF sanctions_result.is_mixer
        THEN <<"Address is a known mixer/tumbler">> \o base
        ELSE base
      no_data_label ==
        IF sanctions_result.is_sanctioned THEN "Critical Risk"
        ELSE IF sanctions_result.is_mixer /\ no_data_score >= 40 THEN "High Risk"
        ELSE "No Data"
  IN [kind |-> "analyze", path |-> "no_data",
      address |-> target_address,
      risk_score |-> no_data_score,
      risk_label |-> no_data_label,
      ml_raw_score |-> 0,
      heuristic_score |-> 0,
      flags |-> no_data_flags,
      neighbors_analyzed |-> 0,
      tx_count |-> 0,
      internal_tx_count |-> 0,
      token_transfers |-> Len(token_txns),
      sanctions |-> sanctions_result]

\* main.py 286-310: the scorer's result, or the fallback when it raises
MLScoring(e) ==
  IF e.sc.raises
  THEN [risk_score |-> 50, risk_label |-> "Unknown", ml_raw_score |-> 0,
        heuristic_score |-> 0, flags |-> <<"ML scoring error: " \o REASON>>,
        neighbors_analyzed |-> 0]
  ELSE score_wallet(e.sc.f, e.sc.ml, e.hist.nbr)

RECURSIVE MixerFlags(_, _)
\* main.py 371-378
MixerFlags(flags, addrs) ==
  IF addrs = <<>> THEN flags
  ELSE LET addr == Head(addrs)
           info == lookup_address(addr)
           msg == "Interacted with mixer: " \o (IF info.label # None THEN info.label ELSE addr)
       IN MixerFlags(IF is_mixer(addr) THEN AppendNew(flags, msg) ELSE flags, Tail(addrs))

RECURSIVE SanctionedCounterpartyFlags(_, _)
\* main.py 381-386
SanctionedCounterpartyFlags(flags, sanctioned) ==
  IF sanctioned = <<>> THEN flags
  ELSE SanctionedCounterpartyFlags(
         AppendNew(flags, "Transacted with OFAC-sanctioned address: " \o Head(sanctioned).label),
         Tail(sanctioned))

\* variant: the modifier is added without the cap at 100
ApplySanctions_nocap(L, sanctions_result) ==
  IF sanctions_result.risk_modifier > 0
  THEN LET score == L.risk_score + sanctions_result.risk_modifier
       IN IF sanctions_result.is_sanctioned
          THEN [L EXCEPT !.risk_score = score, !.flags = <<OFAC_FLAG>> \o L.flags,
                         !.risk_label = "Critical Risk"]
          ELSE IF sanctions_result.is_mixer
          THEN [L EXCEPT !.risk_score = score,
                         !.risk_label = IF score >= 80 THEN "Critical Risk" ELSE L.risk_label]
          ELSE [L EXCEPT !.risk_score = score]
  ELSE L

\* variant: the OFAC flag is appended instead of inserted at the front
ApplySanctions_append(L, sanctions_result) ==
  IF sanctions_result.risk_modifier > 0
  THEN LET score == Min(100, L.risk_score + sanctions_result.risk_modifier)
       IN IF sanctions_result.is_sanctioned
          THEN [L EXCEPT !.risk_score = score, !.flags = Append(L.flags, OFAC_FLAG),
                         !.risk_label = "Critical Risk"]
          ELSE IF sanctions_result.is_mixer
          THEN [L EXCEPT !.risk_score = score,
                         !.risk_label = IF score >= 80 THEN "Critical Risk" ELSE L.risk_label]
          ELSE [L EXCEPT !.risk_score = score]
  ELSE L

\* main.py 388-395
ApplySanctions(L, sanctions_result) ==
  IF sanctions_result.risk_modifier > 0
  THEN LET score == Min(100, L.risk_score + sanctions_result.risk_modifier)
       IN IF sanctions_result.is_sanctioned
          THEN [L EXCEPT !.risk_score = score, !.flags = <<OFAC_FLAG>> \o L.flags,
                         !.risk_label = "Critical Risk"]
          ELSE IF sanctions_result.is_mixer
          THEN [L EXCEPT !.risk_score = score,
                         !.risk_label = IF score >= 80 THEN "Critical Risk" ELSE L.risk_label]
          ELSE [L EXCEPT !.risk_score = score]
  ELSE L

\* main.py 408-412: {} when the graph scorer raises
GnnStep(e, r) ==
  IF e.det.gnn = "raise" THEN [result |-> <<>>, rng |-> r]
  ELSE GNNScorer_score(e.hist.zx, r)

\* main.py 414-418
TemporalResult(e, target_address) ==
  IF e.det.temporal = "raise" THEN KEY_ERROR
  ELSE detect_temporal_anomalies(Raw(target_address), e.hist.normal)

\* {} when the detector raises
TemporalStep(e, target_address) ==
  IF Raises(TemporalResult(e, target_address)) THEN <<>>
  ELSE TemporalResult(e, target_address)

\* main.py 420-426
MevResult(e, target_address) ==
  IF e.det.mev = "raise" THEN <<>>
  ELSE detect_mev_activity(Raw(target_address), e.hist.normal)

MevStep(L, mev_result) ==
  IF mev_result # <<>> /\ mev_result.is_mev_bot
  THEN [L EXCEPT !.flags = Append(L.flags,
          "MEV bot detected (score: " \o ToString(mev_result.mev_risk_score) \o ")")]
  ELSE L

\* main.py 428-436
BridgeResult(e, target_address) ==
  IF e.det.bridge = "raise" THEN <<>>
  ELSE detect_bridge_usage(Raw(target_address), e.hist.normal, e.hist.token)

RECURSIVE AppendAllNew(_, _)
AppendAllNew(flags, more) ==
  IF more = <<>> THEN flags ELSE AppendAllNew(AppendNew(flags, Head(more)), Tail(more))

BridgeStep(L, bridge_result) ==
  IF bridge_result # <<>>
  THEN [L EXCEPT !.flags = AppendAllNew(L.flags,
          SubSeq(bridge_result.bridge_flags, 1, Min(3, Len(bridge_result.bridge_flags))))]
  ELSE L

\* main.py 438-445
CommunityStep(L, community_risk) ==
  IF community_risk > 0
  THEN [L EXCEPT !.risk_score = Min(100, L.risk_score + community_risk),
                 !.flags = Append(L.flags,
                   "Community flagged (+" \o ToString(community_risk) \o " risk modifier)")]
  ELSE L

\* main.py 477-511: the response assembled from the scored fields L and the
\* detectors' results
ReportRecord(e, target_address, sanctions_result, L, counterparty_sanctions, gnn, temporal_result, mev_result, bridge_result, community_risk) ==
  [report |->
     [kind |-> "analyze", path |-> "full",
      address |-> target_address,
      risk_score |-> L.risk_score,
      risk_label |-> L.risk_label,
      ml_raw_score |-> L.ml_raw_score,
      heuristic_score |-> L.heuristic_score,
      flags |-> L.flags,
      neighbors_analyzed |-> L.neighbors_analyzed,
      tx_count |-> Len(e.hist.normal),
      internal_tx_count |-> Len(e.hist.internal),
      token_transfers |-> Len(e.hist.token),
      sanctions |-> sanctions_result,
      counterparty_sanctions |-> counterparty_sanctions,
      gnn |-> gnn.result,
      temporal |-> temporal_result,
      mev |-> mev_result,
      bridges |-> bridge_result,
      community_risk_modifier |-> community_risk],
   rng |-> gnn.rng,
   fetch_log |-> <<target_address>>]

\* main.py 371-445 over the counterparties cps and the detectors' results
ScoreSteps(L0, cps, counterparty_sanctions, sanctions_result, mev_result, bridge_result, community_risk) ==
  LET L1 == [L0 EXCEPT !.flags = MixerFlags(@, cps)]
      L2 == [L1 EXCEPT !.flags =
               SanctionedCounterpartyFlags(@, counterparty_sanctions.sanctioned_addresses)]
      L3 == ApplySanctions(L2, sanctions_result)
      L4 == MevStep(L3, mev_result)
      L5 == BridgeStep(L4, bridge_result)
  IN CommunityStep(L5, community_risk)

\* main.py 212-511 once the counterparties are known
ReportWith(e, r, journal, target_address, sanctions_result, cps, counterparty_sanctions, mev_result, bridge_result, community_risk) ==
  ReportRecord(e, target_address, sanctions_result,
               ScoreSteps(MLScoring(e), cps, counterparty_sanctions, sanctions_result,
                          mev_result, bridge_result, community_risk),
               counterparty_sanctions, GnnStep(e, r), TemporalStep(e, target_address), mev_result,
               bridge_result, community_risk)

\* main.py 231-239, 380: the counterparties and their sanctions summary
ReportFor(e, r, journal, target_address, sanctions_result, cps) ==
  ReportWith(e, r, journal, target_address, sanctions_result, cps,
             check_counterparty_sanctions(cps), MevResult(e, target_address),
             BridgeResult(e, target_address),
             get_community_risk_modifier(journal, target_address))

\* main.py 212-511: the report for a target with transactions
FullReport(e, r, journal, target_address, sanctions_result) ==
  ReportFor(e, r, journal, target_address, sanctions_result,
            SetToSeq(CounterpartyAddrs(e.hist.normal, target_address)))

\* main.py 159-210 once the target is resolved and looked up
AnalyzeTarget(e, r, journal, target_address, sanctions_result) ==
  IF e.hist.normal \o e.hist.internal = <<>>
  THEN [report |-> NoDataReport(target_address, sanctions_result, e.hist.token),
        rng |-> r,
        fetch_log |-> <<target_address>>]
  ELSE FullReport(e, r, journal, target_address, sanctions_result)

\* main.py 159: the sanctions lookup of the target
AnalyzeResolved(e, r, journal, target_address) ==
  AnalyzeTarget(e, r, journal, target_address, check_sanctions(target_address))

\* main.py 148-511
analyze_wallet(e, r, journal) == AnalyzeResolved(e, r, journal, TargetOf(e.addr, e.ens))

\* ------------------------------------------------------------ batch analyzer
\* batch_analyzer.py 39-118
_analyze_single(e) ==
  LET stripped == Lower(e.addr)
      is_ens == EndsWithEth(stripped)
      resolved == resolve_input(Raw(stripped), e.ens)
      ens_failed == is_ens /\ ~(resolved.resolved /\ resolved.address # None)
      address == IF is_ens /\ ~ens_failed THEN resolved.address ELSE stripped
      valid == SubSeq(address, 1, Min(2, Len(address))) = "0x" /\ Len(address) = 42
      all_txns == e.hist.normal \o e.hist.internal
      scored == e.sc.raises = FALSE
      result == score_wallet(e.sc.f, e.sc.ml, e.hist.nbr)
      sanctions == check_sanctions(address)
      risk_score == IF sanctions.risk_modifier > 0
                    THEN Min(100, result.risk_score + sanctions.risk_modifier)
                    ELSE result.risk_score
  IN IF ens_failed
     THEN [report |-> [kind |-> "batch", address |-> address,
                       error |-> "Could not resolve ENS name"],
           fetch_log |-> <<>>]
     ELSE IF ~valid
     THEN [report |-> [kind |-> "batch", address |-> address,
                       error |-> "Invalid address format"],
           fetch_log |-> <<>>]
     ELSE IF all_txns = <<>>
     THEN [report |-> [kind |-> "batch", address |-> address, error |-> "",
                       risk_score |-> 0, risk_label |-> "No Data",
                       flags |-> <<"No transactions found">>, tx_count |-> 0],
           fetch_log |-> <<address>>]
     ELSE IF ~scored
     THEN [report |-> [kind |-> "batch", address |-> address, error |-> REASON],
           fetch_log |-> <<address>>]
     ELSE [report |-> [kind |-> "batch", address |-> address, error |-> "",
                       risk_score |-> risk_score, risk_label |-> result.risk_label,
                       ml_raw_score |-> result.ml_raw_score,
                       heuristic_score |-> result.heuristic_score,
                       flags |-> result.flags,
                       tx_count |-> e.sc.f.tx_count,
                       is_sanctioned |-> sanctions.is_sanctioned],
           fetch_log |-> <<address>>]

\* ---------------------------------------------------------------- watchlist
QUICK_NO_TX_FLAG == "No transactions found on this chain"

\* watchlist.py 83-93: the scorer's result, or the fallback when it raises
QuickScoring(e) ==
  IF e.sc.raises
  THEN [risk_score |-> 50, risk_label |-> "Unknown",
        flags |-> <<"Scoring error: " \o REASON>>]
  ELSE LET result == score_wallet(e.sc.f, e.sc.ml, e.hist.nbr)
       IN [risk_score |-> result.risk_score, risk_label |-> result.risk_label,
           flags |-> result.flags]

\* watchlist.py 112-117
QuickSanctions(L, sanctions_result) ==
  IF sanctions_result.risk_modifier > 0
  THEN LET score == Min(100, L.risk_score + sanctions_result.risk_modifier)
       IN IF sanctions_result.is_sanctioned
          THEN [L EXCEPT !.risk_score = score, !.flags = <<OFAC_FLAG>> \o L.flags,
                         !.risk_label = "Critical Risk"]
          ELSE [L EXCEPT !.risk_score = score]
  ELSE L

\* watchlist.py 126-143
QuickReport(e, target_address, sanctions_result, L) ==
  [kind |-> "quick", path |-> "full", address |-> target_address,
   risk_score |-> L.risk_score, risk_label |-> L.risk_label, flags |-> L.flags,
   tx_count |-> Len(e.hist.normal), internal_tx_count |-> Len(e.hist.internal),
   token_transfers |-> Len(e.hist.token),
   is_sanctioned |-> sanctions_result.is_sanctioned]

\* watchlist.py 64-78
QuickNoData(target_address) ==
  [kind |-> "quick", path |-> "no_data", address |-> target_address,
   risk_score |-> 0, risk_label |-> "No Data", flags |-> <<QUICK_NO_TX_FLAG>>,
   tx_count |-> 0, token_transfers |-> 0]

\* watchlist.py 95-117
QuickScored(e, target_address, sanctions_result) ==
  QuickSanctions([QuickScoring(e) EXCEPT !.flags =
                    MixerFlags(@, SetToSeq(CounterpartyAddrs(e.hist.normal,
                                                             target_address)))],
                 sanctions_result)

QuickTarget(e, target_address, sanctions_result) ==
  [report |-> IF e.hist.normal \o e.hist.internal = <<>>
              THEN QuickNoData(target_address)
              ELSE QuickReport(e, target_address, sanctions_result,
                               QuickScored(e, target_address, sanctions_result)),
   fetch_log |-> <<target_address>>]

QuickResolved(e, target_address) ==
  QuickTarget(e, target_address, check_sanctions(target_address))

\* watchlist.py 32-143
quick_score(e) == QuickResolved(e, TargetOf(e.addr, e.ens))

\* -------------------------------------------------------------- rate limiter
\* fetcher.py 23: 0.25 s, in units of 50 ms
RATE_LIMIT_DELAY == 5
NThreads == 2
MaxTime == 11
Threads == 1..NThreads

RateInit ==
  /\ last_call_time = 0
  /\ clock = RATE_LIMIT_DELAY
  /\ thr = [t \in Threads |-> [pc |-> "idle", now |-> 0, wake |-> 0]]
  /\ passed = <<>>

\* fetcher.py 28: now = time.time()
RL_ReadNow(t) ==
  /\ thr[t].pc = "idle"
  /\ thr' = [thr EXCEPT ![t] = [pc |-> "check", now |-> clock, wake |-> 0]]
  /\ UNCHANGED <<last_call_time, clock, passed, orch_vars, ext_vars>>

\* fetcher.py 29-31: elapsed = now - _last_call_time; sleep when it is short
RL_Check(t) ==
  /\ thr[t].pc = "check"
  /\ LET elapsed == thr[t].now - last_call_time
     IN thr' = [thr EXCEPT ![t] =
                  IF elapsed < RATE_LIMIT_DELAY
                  THEN [pc |-> "sleep", now |-> thr[t].now,
                        wake |-> clock + (RATE_LIMIT_DELAY - elapsed)]
                  ELSE [pc |-> "stamp", now |-> thr[t].now, wake |-> 0]]
  /\ UNCHANGED <<last_call_time, clock, passed, orch_vars, ext_vars>>

\* fetcher.py 31: time.sleep returns once the duration has gone by
RL_Wake(t) ==
  /\ thr[t].pc = "sleep"
  /\ clock >= thr[t].wake
  /\ thr' = [thr EXCEPT ![t].pc = "stamp"]
  /\ UNCHANGED <<last_call_time, clock, passed, orch_vars, ext_vars>>

\* fetcher.py 32: _last_call_time = time.time(); the request goes out
RL_Stamp(t) ==
  /\ thr[t].pc = "stamp"
  /\ last_call_time' = clock
  /\ passed' = Append(passed, clock)
  /\ thr' = [thr EXCEPT ![t] = [pc |-> "idle", now |-> 0, wake |-> 0]]
  /\ UNCHANGED <<clock, orch_vars, ext_vars>>

Tick ==
  /\ clock < MaxTime
  /\ clock' = clock + 1
  /\ UNCHANGED <<last_call_time, thr, passed, orch_vars, ext_vars>>

\* ------------------------------------------------------ community journal
\* community_reports.py 26-37
REPORT_CATEGORIES ==
  {"scam", "phishing", "rug_pull", "honeypot", "impersonation", "wash_trading",
   "drainer", "fake_token", "ponzi", "other"}

\* community_reports.py 194, 198: votes that confirm or dismiss a report
VOTE_THRESHOLD == 5

MaxVoters == 10
MaxVoteReports == 2
MaxReports == 14
MaxForeign == 2
NWriters == 2
MaxOps == 2

Voter(i) == "v" \o ToString(i)

\* community_reports.py 183: f"{report_id}:{voter_id}"
VoteKey(report_id, voter_id) == ToString(report_id) \o ":" \o voter_id

\* what a call returns: ok, the error text, and new_status / previous_vote
Result(kind, ok, error, info) == [kind |-> kind, ok |-> ok, error |-> error, info |-> info]
NoResult == Result("none", FALSE, "", "")

\* no detector or scorer call is under way
NoCall == [fn |-> "none"]

\* the journals and the cache directory are empty
ObjectsIdle ==
  /\ labels = <<>>
  /\ added = <<>>
  /\ sthr = <<>>
  /\ scaler = <<>>
  /\ model = <<>>
  /\ weights = <<>>

FilesIdle ==
  /\ votes = <<>>
  /\ nid = 0
  /\ vres = NoResult
  /\ jthr = <<>>
  /\ acked = {}
  /\ cache = <<>>
  /\ cnow = 0
  /\ api_calls = 0
  /\ fres = [kind |-> "none"]

StoresIdle == FilesIdle /\ ObjectsIdle

ExtIdle == StoresIdle /\ call = NoCall

\* community_reports.py 107-120: the record submit_report builds
BuildReport(id, address, category) ==
  [NewReport(id, Lower(address)) EXCEPT !.category = Lower(category)]

\* community_reports.py 93-103: the text of the error, "" when the input is accepted
SubmitError(category, desc_len) ==
  IF Lower(category) \notin REPORT_CATEGORIES THEN "Invalid category"
  ELSE IF desc_len > 2000 THEN "Description too long (max 2000 characters)"
  ELSE ""

\* community_reports.py 80-126
submit_report(journal, id, address, category, desc_len) ==
  IF SubmitError(category, desc_len) # ""
  THEN [reports |-> journal,
        result |-> Result("submit", FALSE, SubmitError(category, desc_len), "")]
  ELSE [reports |-> Append(journal, BuildReport(id, address, category)),
        result |-> Result("submit", TRUE, "", ToString(id))]

\* community_reports.py 172-176: the first report with that id, 0 when none
FindReport(journal, report_id) ==
  LET hits == {i \in 1..Len(journal) : journal[i].id = report_id}
  IN IF hits = {} THEN 0 ELSE CHOOSE i \in hits : \A j \in hits : i <= j

\* community_reports.py 188-191
CountVote(target, vote) ==
  IF vote = "up" THEN [target EXCEPT !.upvotes = @ + 1]
  ELSE [target EXCEPT !.downvotes = @ + 1]

\* community_reports.py 194-195
AutoConfirm(target) ==
  IF target.upvotes >= VOTE_THRESHOLD /\ target.status = "pending"
  THEN [target EXCEPT !.status = "confirmed"] ELSE target

\* variant: enough downvotes dismiss a report whatever its status
AutoDismiss_any(target) ==
  IF target.downvotes >= VOTE_THRESHOLD
  THEN [target EXCEPT !.status = "dismissed"] ELSE target

\* community_reports.py 198-199
AutoDismiss(target) ==
  IF target.downvotes >= VOTE_THRESHOLD /\ target.status = "pending"
  THEN [target EXCEPT !.status = "dismissed"] ELSE target

\* community_reports.py 188-199
ApplyVote(target, vote) == AutoDismiss(AutoConfirm(CountVote(target, vote)))

\* variant: the vote journal is not consulted
AlreadyVoted_never(vote_journal, vote_key) == FALSE

\* community_reports.py 184
AlreadyVoted(vote_journal, vote_key) == vote_key \in DOMAIN vote_journal

\* community_reports.py 203: votes[vote_key] = vote
RecordVote(vote_journal, vote_key, vote) == (vote_key :> vote) @@ vote_journal

\* community_reports.py 178-206 once the target's index is known
VoteOn(journal, vote_journal, idx, vote_key, vote) ==
  IF idx = 0
  THEN [reports |-> journal, votes |-> vote_journal,
        result |-> Result("vote", FALSE, "Report not found", "")]
  ELSE IF AlreadyVoted(vote_journal, vote_key)
  THEN [reports |-> journal, votes |-> vote_journal,
        result |-> Result("vote", FALSE, "Already voted on this report",
                          vote_journal[vote_key])]
  ELSE [reports |-> [journal EXCEPT ![idx] = ApplyVote(@, vote)],
        votes |-> RecordVote(vote_journal, vote_key, vote),
        result |-> Result("vote", TRUE, "", ApplyVote(journal[idx], vote).status)]

\* community_reports.py 163-206
vote_report(journal, vote_journal, report_id, vote, voter_id) ==
  IF vote \notin {"up", "down"}
  THEN [reports |-> journal, votes |-> vote_journal,
        result |-> Result("vote", FALSE, "Vote must be 'up' or 'down'", "")]
  ELSE VoteOn(journal, vote_journal, FindReport(journal, report_id),
              VoteKey(report_id, voter_id), vote)

OrchIdle ==
  /\ phase = "idle"
  /\ env = NoEnv
  /\ report = NoReport
  /\ prev = NoPrev
  /\ rng = 0
  /\ calls = 0
  /\ fetch_log = <<>>

InitRate == OrchIdle /\ reports = <<>> /\ RateInit /\ ExtIdle

NextRate ==
  \/ \E t \in Threads : RL_ReadNow(t)
  \/ \E t \in Threads : RL_Check(t)
  \/ \E t \in Threads : RL_Wake(t)
  \/ \E t \in Threads : RL_Stamp(t)
  \/ Tick

SpecRate == InitRate /\ [][NextRate]_vars

\* ------------------------------------------------------------------ actions
\* the journal on disk when the server starts: n reports about one address
Journals ==
  {<<>>} \cup { [i \in 1..n |-> NewReport(i, a)] :
                n \in 1..MaxJournal, a \in {ADDR_PLAIN} }
         \cup { [i \in 1..MaxJournal |-> NewReport(i, ADDR_TORNADO)] }

Init == OrchIdle /\ reports \in Journals /\ RateInit /\ ExtIdle

\* GET /analyze/{address}
Analyze(e) ==
  /\ phase = "idle"
  /\ calls < MaxCalls
  /\ LET out == analyze_wallet(e, rng, reports)
     IN /\ report' = out.report
        /\ rng' = out.rng
        /\ fetch_log' = out.fetch_log
  /\ env' = e
  /\ prev' = NoPrev
  /\ phase' = "returned"
  /\ calls' = calls + 1
  /\ UNCHANGED <<reports, rate_vars, ext_vars>>

\* the same request again, the fetcher returning the same lists
AnalyzeAgain ==
  /\ phase = "returned"
  /\ report.kind = "analyze"
  /\ calls < MaxCalls
  /\ LET out == analyze_wallet(env, rng, reports)
     IN /\ report' = out.report
        /\ rng' = out.rng
        /\ fetch_log' = out.fetch_log
  /\ prev' = [kind |-> "call", env |-> env, report |-> report]
  /\ calls' = calls + 1
  /\ UNCHANGED <<phase, env, reports, rate_vars, ext_vars>>

\* one address of POST /batch
AnalyzeSingle(e) ==
  /\ phase = "idle"
  /\ calls < MaxCalls
  /\ LET out == _analyze_single(e)
     IN /\ report' = out.report
        /\ fetch_log' = out.fetch_log
  /\ env' = e
  /\ prev' = NoPrev
  /\ phase' = "returned"
  /\ calls' = calls + 1
  /\ UNCHANGED <<rng, reports, rate_vars, ext_vars>>

\* the response has been sent
Done ==
  /\ phase = "returned"
  /\ phase' = "idle"
  /\ env' = NoEnv
  /\ report' = NoReport
  /\ prev' = NoPrev
  /\ fetch_log' = <<>>
  /\ UNCHANGED <<rng, calls, reports, rate_vars, ext_vars>>

Next ==
  \/ phase = "idle" /\ calls < MaxCalls /\ \E e \in Envs : Analyze(e)
  \/ AnalyzeAgain
  \/ phase = "idle" /\ calls < MaxCalls /\ \E e \in BatchEnvs : AnalyzeSingle(e)
  \/ Done

Spec == Init /\ [][Next]_vars

\* ------------------------------------------- batch and watchlist, called alone
\* one refresh of a watched address
QuickScore(e) ==
  /\ phase = "idle"
  /\ calls < MaxCalls
  /\ LET out == quick_score(e)
     IN /\ report' = out.report
        /\ fetch_log' = out.fetch_log
  /\ env' = e
  /\ prev' = NoPrev
  /\ phase' = "returned"
  /\ calls' = calls + 1
  /\ UNCHANGED <<rng, reports, rate_vars, ext_vars>>

InitQuick == OrchIdle /\ reports = <<>> /\ RateInit /\ ExtIdle

NextQuick ==
  \/ phase = "idle" /\ calls < MaxCalls /\ \E e \in BatchEnvs : AnalyzeSingle(e)
  \/ phase = "idle" /\ calls < MaxCalls /\ \E e \in BatchEnvs : QuickScore(e)
  \/ Done

SpecQuick == InitQuick /\ [][NextQuick]_vars

\* ------------------------------------------------- community journal: calls
not_journal == <<phase, env, report, prev, rng, calls, fetch_log, rate_vars, cache_vars,
                 pure_vars>>

\* POST /community/report, the call running alone
SubmitReport(address, category, desc_len) ==
  /\ LET out == submit_report(reports, nid + 1, address, category, desc_len)
     IN /\ reports' = out.reports
        /\ vres' = out.result
        /\ nid' = IF out.result.ok THEN nid + 1 ELSE nid
  /\ UNCHANGED <<votes, jthr, acked, not_journal>>

\* POST /community/vote, the call running alone
VoteReport(report_id, vote, voter_id) ==
  /\ LET out == vote_report(reports, votes, report_id, vote, voter_id)
     IN /\ reports' = out.reports
        /\ votes' = out.votes
        /\ vres' = out.result
  /\ UNCHANGED <<nid, jthr, acked, not_journal>>

\* what the clients send
SubmitCategories == {Mixed("scam"), Raw("bogus")}
DescLens == {0, 2001}
MISSING_ID == 99
\* votes that name no report or carry no valid word
BadVotes == {[id |-> MISSING_ID, vote |-> "up"], [id |-> 1, vote |-> "sideways"]}
\* voters are named in the order of their first vote
KnownVoters(cap) == 1..Min(cap, Cardinality(DOMAIN votes) + 1)
ReportsAbout(journal, address) ==
  Cardinality({i \in 1..Len(journal) : journal[i].address = address})

InitVotes == OrchIdle /\ reports = <<>> /\ RateInit /\ ExtIdle

\* few reports, many voters on the first of them
NextVotes ==
  \/ \E c \in SubmitCategories, d \in DescLens :
       Len(reports) < MaxVoteReports /\ SubmitReport(Mixed(ADDR_PLAIN), c, d)
  \/ \E v \in {"up", "down"}, i \in KnownVoters(MaxVoters) : VoteReport(1, v, Voter(i))
  \/ \E b \in BadVotes : VoteReport(b.id, b.vote, Voter(1))

SpecVotes == InitVotes /\ [][NextVotes]_vars

\* many reports about one address, a few about another, one voter
NextSubmit ==
  \/ \E c \in SubmitCategories :
       /\ ReportsAbout(reports, ADDR_PLAIN) < MaxReports
       /\ SubmitReport(Mixed(ADDR_PLAIN), c, 0)
  \/ \E c \in SubmitCategories :
       /\ ReportsAbout(reports, ADDR_SCAM) < MaxForeign
       /\ SubmitReport(Raw(ADDR_SCAM), c, 0)
  \/ \E v \in {"up", "down"} : VoteReport(1, v, Voter(1))

SpecSubmit == InitVotes /\ [][NextSubmit]_vars

\* ------------------------------------------------------------ fetcher cache
\* fetcher.py 19: 300 s, in units of 100 s
CACHE_TTL == 3
MaxCacheTime == 6
MaxApiCalls == 4

\* fetcher.py 35-37: the digest of "address:chain:action", taken as collision free
_cache_key(address, chain_id, action) ==
  Lower(address) \o ":" \o ToString(chain_id) \o ":" \o action

\* variant: an entry exactly CACHE_TTL old still counts as fresh
CacheFresh_inclusive(age) == age <= CACHE_TTL

\* fetcher.py 44
CacheFresh(age) == age < CACHE_TTL

\* fetcher.py 40-49: the cached list, None when there is no fresh entry
_get_cached(files, key, now) ==
  IF key \in DOMAIN files /\ CacheFresh(now - files[key].mtime)
  THEN files[key].data ELSE None

\* fetcher.py 52-57
_set_cache(files, key, data, now) == (key :> [mtime |-> now, data |-> data]) @@ files

\* list[:n]
Truncate(list, n) == SubSeq(list, 1, Min(n, Len(list)))

\* fetcher.py 74-85: the request asks for one page of max_results entries
\* ("page": 1, "offset": max_results), the remote API answers with the newest
\* max_results transactions of the list it holds
ApiPage(held, max_results) == Truncate(held, max_results)

\* fetcher.py 60-100 on a miss: held is the list the remote API holds for the
\* address, <<>> for no data
FetchRemote(files, key, max_results, held, now) ==
  IF ApiPage(held, max_results) # <<>>
  THEN [cache |-> _set_cache(files, key, ApiPage(held, max_results), now),
        contacted |-> TRUE,
        out |-> Truncate(ApiPage(held, max_results), max_results)]
  ELSE [cache |-> files, contacted |-> TRUE, out |-> <<>>]

\* fetcher.py 60-100 once the cache has been consulted
FetchWith(files, key, cached, max_results, answer, now) ==
  IF cached # None
  THEN [cache |-> files, contacted |-> FALSE, out |-> Truncate(cached, max_results)]
  ELSE FetchRemote(files, key, max_results, answer, now)

\* fetcher.py 60-100
fetch_transactions(files, address, chain_id, max_results, answer, now) ==
  FetchWith(files, _cache_key(address, chain_id, "txlist"),
            _get_cached(files, _cache_key(address, chain_id, "txlist"), now),
            max_results, answer, now)

not_cache == <<phase, env, report, prev, rng, calls, fetch_log, reports, rate_vars,
               journal_vars, pure_vars>>

\* what the remote API answers: the newest transactions first, or nothing
ApiAnswers == {<<>>, <<31, 30>>, <<32, 31, 30>>}
FetchAddresses == {Raw(ADDR_PLAIN), Mixed(ADDR_PLAIN), Raw(ADDR_BINANCE)}
MaxResultsChoices == {2, 200}

\* a cache entry together with the list the remote API held when it was written
Noted(files, key, held) ==
  (key :> [mtime |-> files[key].mtime, data |-> files[key].data, held |-> held]) @@ files

\* one call of fetch_transactions, the remote API holding the list answer; the
\* record keeps what the call saw
FetchTransactions(address, max_results, answer) ==
  /\ LET out == fetch_transactions(cache, address, 1, max_results, answer, cnow)
     IN /\ cache' = IF out.cache # cache
                    THEN Noted(out.cache, _cache_key(address, 1, "txlist"), answer)
                    ELSE cache
        /\ api_calls' = IF out.contacted THEN api_calls + 1 ELSE api_calls
        /\ fres' = [kind |-> "fetch", key |-> _cache_key(address, 1, "txlist"),
                    at |-> cnow, files |-> cache, max_results |-> max_results,
                    contacted |-> out.contacted, out |-> out.out, held |-> answer]
  /\ UNCHANGED <<cnow, not_cache>>

CacheTick ==
  /\ cnow < MaxCacheTime
  /\ cnow' = cnow + 1
  /\ UNCHANGED <<cache, api_calls, fres, not_cache>>

InitCache == InitVotes

NextCache ==
  \/ \E a \in FetchAddresses, n \in MaxResultsChoices, r \in ApiAnswers :
       api_calls < MaxApiCalls /\ FetchTransactions(a, n, r)
  \/ CacheTick

SpecCache == InitCache /\ [][NextCache]_vars

\* ------------------------------------------- community journal: two threads
Writers == 1..NWriters

JIdle(n) ==
  [pc |-> "idle", ops |-> n, local |-> <<>>, lvotes |-> <<>>, id |-> 0, idx |-> 0,
   key |-> "", vote |-> ""]

Ack(op, id, key, vote) == [op |-> op, id |-> id, key |-> key, vote |-> vote]

\* community_reports.py 93-123: validate, build the record, load, append
J_SubmitLoad(t, address, category, desc_len) ==
  /\ jthr[t].pc = "idle"
  /\ jthr[t].ops < MaxOps
  /\ IF SubmitError(category, desc_len) # ""
     THEN /\ jthr' = [jthr EXCEPT ![t] = JIdle(@.ops + 1)]
          /\ nid' = nid
     ELSE /\ jthr' = [jthr EXCEPT ![t] =
                 [@ EXCEPT !.pc = "s_save", !.id = nid + 1,
                           !.local = submit_report(reports, nid + 1, address, category,
                                                   desc_len).reports]]
          /\ nid' = nid + 1
  /\ UNCHANGED <<reports, votes, vres, acked, not_journal>>

\* community_reports.py 124-126: _save_reports, return success
J_SubmitSave(t) ==
  /\ jthr[t].pc = "s_save"
  /\ reports' = jthr[t].local
  /\ acked' = acked \cup {Ack("submit", jthr[t].id, "", "")}
  /\ jthr' = [jthr EXCEPT ![t] = JIdle(@.ops + 1)]
  /\ UNCHANGED <<votes, nid, vres, not_journal>>

\* community_reports.py 171-179: load the reports, look for the target
J_VoteLoad(t, report_id, vote, voter_id) ==
  /\ jthr[t].pc = "idle"
  /\ jthr[t].ops < MaxOps
  /\ jthr' = [jthr EXCEPT ![t] =
       IF FindReport(reports, report_id) = 0 THEN JIdle(@.ops + 1)
       ELSE [@ EXCEPT !.pc = "v_check", !.local = reports, !.id = report_id,
                      !.idx = FindReport(reports, report_id),
                      !.key = VoteKey(report_id, voter_id), !.vote = vote]]
  /\ UNCHANGED <<reports, votes, nid, vres, acked, not_journal>>

\* community_reports.py 182-199: load the votes, reject a repeat, apply the vote
J_VoteCheck(t) ==
  /\ jthr[t].pc = "v_check"
  /\ jthr' = [jthr EXCEPT ![t] =
       IF AlreadyVoted(votes, @.key) THEN JIdle(@.ops + 1)
       ELSE [@ EXCEPT !.pc = "v_save", !.lvotes = votes,
                      !.local = VoteOn(jthr[t].local, votes, jthr[t].idx, jthr[t].key,
                                       jthr[t].vote).reports]]
  /\ UNCHANGED <<reports, votes, nid, vres, acked, not_journal>>

\* community_reports.py 201: _save_reports
J_VoteSave(t) ==
  /\ jthr[t].pc = "v_save"
  /\ reports' = jthr[t].local
  /\ jthr' = [jthr EXCEPT ![t].pc = "v_votes"]
  /\ UNCHANGED <<votes, nid, vres, acked, not_journal>>

\* community_reports.py 203-206: record the vote, _save_votes, return success
J_VoteSaveVotes(t) ==
  /\ jthr[t].pc = "v_votes"
  /\ votes' = RecordVote(jthr[t].lvotes, jthr[t].key, jthr[t].vote)
  /\ acked' = acked \cup {Ack("vote", jthr[t].id, jthr[t].key, jthr[t].vote)}
  /\ jthr' = [jthr EXCEPT ![t] = JIdle(@.ops + 1)]
  /\ UNCHANGED <<reports, nid, vres, not_journal>>

InitJournal ==
  /\ OrchIdle /\ reports = <<>> /\ RateInit
  /\ cache = <<>> /\ cnow = 0 /\ api_calls = 0 /\ fres = [kind |-> "none"]
  /\ call = NoCall /\ ObjectsIdle
  /\ votes = <<>> /\ nid = 0 /\ vres = NoResult /\ acked = {}
  /\ jthr = [t \in Writers |-> JIdle(0)]

NextJournal ==
  \/ \E t \in Writers, c \in SubmitCategories : J_SubmitLoad(t, Mixed(ADDR_PLAIN), c, 0)
  \/ \E t \in Writers : J_SubmitSave(t)
  \/ \E t \in Writers, v \in {"up", "down"}, i \in 1..2 : J_VoteLoad(t, 1, v, Voter(i))
  \/ \E t \in Writers : J_VoteCheck(t)
  \/ \E t \in Writers : J_VoteSave(t)
  \/ \E t \in Writers : J_VoteSaveVotes(t)

SpecJournal == InitJournal /\ [][NextJournal]_vars


\* ================================================ scorer and detectors, called alone
\* a call record: the function, its input, and its output once it has returned
Pending(fn, input) == [fn |-> fn, input |-> input, done |-> FALSE]
Returned(c, out) == [fn |-> c.fn, input |-> c.input, done |-> TRUE, out |-> out]

PureIdle == OrchIdle /\ reports = <<>> /\ RateInit /\ StoresIdle
not_pure == <<orch_vars, rate_vars, journal_vars, cache_vars, store_vars, scorer_vars>>

\* ------------------------------------------------ heuristic rules, called alone
\* feature values on both sides of every threshold of the rule bank; ratios in
\* percent
FeatureVectors ==
  [round_value_ratio : {30, 31, 60, 61}, burst_ratio : {20, 21, 50, 51},
   self_transfers : {0, 1, 3, 4}, flow_ratio : {2, 3, 5, 6},
   failed_tx_ratio : {30, 31}, tx_count : {20, 21, 31},
   unique_counterparties : {4, 5}, lifespan_days : {2, 3, 7},
   max_value : {10, 11}, contract_call_ratio : {0}]

ComputeHeuristicBoost ==
  /\ call.fn = "_compute_heuristic_boost" /\ ~call.done
  /\ call' = Returned(call, _compute_heuristic_boost(call.input))
  /\ UNCHANGED not_pure

InitHeuristic ==
  /\ PureIdle
  /\ call \in {Pending("_compute_heuristic_boost", f) : f \in FeatureVectors}

NextHeuristic == ComputeHeuristicBoost

SpecHeuristic == InitHeuristic /\ [][NextHeuristic]_vars

\* ------------------------------------------------ MEV detector, called alone
MaxInbound == 3
MaxBlocks == 5

\* lists in which the wallet only receives: the sender and the gas price vary
InboundChoices == [sender : {ADDR_BINANCE, MB_BOT, MB_JARED}, gas : {1, 10, 100}]

InboundList(t, c) ==
  [i \in 1..Len(c) |->
     TxAt(Raw(c[i].sender), Raw(t), 100 + i, 0, c[i].gas, NO_INPUT, 1000 * i)]

InboundLists(t) ==
  UNION { {InboundList(t, c) : c \in [1..n -> InboundChoices]} : n \in 0..MaxInbound }

\* one block in which the wallet calls router r at indices 5 and 9; the
\* transaction at index 7 is somebody else's: it is not in the wallet's list, or
\* it pays the wallet, or it is listed as a call to the router

Between(t, r, block, kind) ==
  IF kind = "unlisted" THEN <<>>
  ELSE IF kind = "pays" THEN <<TxAt(Mixed(ADDR_BINANCE), Raw(t), block, 7, 20, NO_INPUT, 0)>>
  ELSE <<TxAt(Mixed(ADDR_BINANCE), r, block, 7, 20, SWAP_INPUT, 0)>>

SandwichBlock(t, r, gas_front, gas_back, kind, newest_first) ==
  IF newest_first
  THEN <<Back(t, r, 500, gas_back, 0)>> \o Between(t, r, 500, kind)
       \o <<Front(t, r, 500, gas_front, 0)>>
  ELSE <<Front(t, r, 500, gas_front, 0)>> \o Between(t, r, 500, kind)
       \o <<Back(t, r, 500, gas_back, 0)>>

SandwichLists(t) ==
  { SandwichBlock(t, r, gf, gb, k, o) :
      r \in {Raw(UNISWAP_V2), Mixed(UNISWAP_V2), Raw(UNISWAP_V3_2)},
      gf \in {10, 20}, gb \in {10, 20},
      k \in {"unlisted", "pays", "calls"}, o \in BOOLEAN }

BusyLists(t) ==
  {BusyList(t, Raw(UNISWAP_V3_2), n, gap) : n \in 1..MaxBlocks, gap \in {10, 100}}

MevInputs(t) ==
  [address : {Raw(t), Mixed(t)},
   transactions : InboundLists(t) \cup SandwichLists(t) \cup BusyLists(t)]

DetectMevActivity ==
  /\ call.fn = "detect_mev_activity" /\ ~call.done
  /\ call' = Returned(call, detect_mev_activity(call.input.address, call.input.transactions))
  /\ UNCHANGED not_pure

InitMev ==
  /\ PureIdle
  /\ call \in {Pending("detect_mev_activity", i) : i \in MevInputs(ADDR_PLAIN)}

NextMev == DetectMevActivity

SpecMev == InitMev /\ [][NextMev]_vars

\* ------------------------------------------------ bridge tracker, called alone
MaxBridgeTxs == 4

\* each listed transaction is a deposit to, or a withdrawal from, one of these
BridgeChoices ==
  [contract : {STARGATE_ROUTER, STARGATE_USDC, STARGATE_ETH, MULTICHAIN_V6},
   deposit : {TRUE}]
  \cup {[contract |-> STARGATE_ROUTER, deposit |-> FALSE]}

\* the i-th transaction follows the first after (i - 1) * gap seconds
BridgeTx(t, c, ts, value) ==
  Valued(IF c.deposit THEN TxAt(Raw(t), Mixed(c.contract), 800, 0, 20, SWAP_INPUT, ts)
         ELSE TxAt(Raw(c.contract), Mixed(t), 800, 0, 20, NO_INPUT, ts),
         value)

BridgeList(t, c, gap, value) ==
  [i \in 1..Len(c) |-> BridgeTx(t, c[i], 1700000000 + (i - 1) * gap, value)]

\* 20 minutes or more than an hour between neighbours; 1 or 60 ETH each
BridgeLists(t) ==
  UNION { {BridgeList(t, c, gap, value) :
             c \in [1..n -> BridgeChoices], gap \in {1200, 4000}, value \in {1, 60}}
          : n \in 0..MaxBridgeTxs }

BridgeInputs(t) ==
  [address : {Raw(t)}, transactions : BridgeLists(t), token_transfers : {<<>>}]

DetectBridgeUsage ==
  /\ call.fn = "detect_bridge_usage" /\ ~call.done
  /\ call' = Returned(call, detect_bridge_usage(call.input.address,
                              call.input.transactions, call.input.token_transfers))
  /\ UNCHANGED not_pure

InitBridge ==
  /\ PureIdle
  /\ call \in {Pending("detect_bridge_usage", i) : i \in BridgeInputs(ADDR_PLAIN)}

NextBridge == DetectBridgeUsage

SpecBridge == InitBridge /\ [][NextBridge]_vars

\* ------------------------------------------------ temporal anomalies, called alone
MaxTemporalTxs == 3

DayStart(d) == d * 86400

\* no timestamp, three moments of one day 100 s and 800 s apart, and a moment
\* three days later; the wallet sends or receives
TemporalChoices ==
  [ts : {0, DayStart(19676) + 100, DayStart(19676) + 200, DayStart(19676) + 1000,
         DayStart(19679) + 50},
   out : BOOLEAN]

TemporalTx(t, c, i) ==
  Valued(IF c.out THEN TxAt(Raw(t), Mixed(ADDR_BINANCE), 900 + i, 0, 20, NO_INPUT, c.ts)
         ELSE TxAt(Raw(ADDR_BINANCE), Mixed(t), 900 + i, 0, 20, NO_INPUT, c.ts),
         1)

TemporalList(t, c) == [i \in 1..Len(c) |-> TemporalTx(t, c[i], i)]

TemporalInputs(t) ==
  [address : {Raw(t)},
   transactions : UNION { {TemporalList(t, c) : c \in [1..n -> TemporalChoices]}
                          : n \in 0..MaxTemporalTxs }]

\* a returned call together with what it handed on while it ran
Observed(c, out, handed) ==
  [fn |-> c.fn, input |-> c.input, done |-> TRUE, out |-> out, handed |-> handed]

DetectTemporalAnomalies ==
  /\ call.fn = "detect_temporal_anomalies" /\ ~call.done
  /\ LET daily_list == _to_daily_series(call.input.transactions, call.input.address)
         series == SeriesOf(daily_list)
     IN call' = Observed(call,
                         TemporalOver(daily_list, series, call.input.transactions,
                                      call.input.address),
                         series)
  /\ UNCHANGED not_pure

InitTemporal ==
  /\ PureIdle
  /\ call \in {Pending("detect_temporal_anomalies", i) : i \in TemporalInputs(ADDR_PLAIN)}

NextTemporal == DetectTemporalAnomalies

SpecTemporal == InitTemporal /\ [][NextTemporal]_vars

\* ------------------------------------------------ feature extraction, called alone
ExtractWalletFeatures ==
  /\ call.fn = "extract_wallet_features" /\ ~call.done
  /\ call' = Returned(call, extract_wallet_features(call.input.address,
                                                     call.input.transactions))
  /\ UNCHANGED not_pure

InitFeatures ==
  /\ PureIdle
  /\ call \in {Pending("extract_wallet_features", i) : i \in TemporalInputs(ADDR_PLAIN)}

NextFeatures == ExtractWalletFeatures

SpecFeatures == InitFeatures /\ [][NextFeatures]_vars

\* ------------------------------------------------ cluster analysis, called alone
MaxEdges == 3

Wallets == {"w1", "w2", "w3"}

\* graphs of up to MaxEdges transfers among three wallets, a wallet may pay itself
Graphs == UNION { [1..n -> [from : Wallets, to : Wallets]] : n \in 0..MaxEdges }

ClusterInputs(ws) ==
  [G : Graphs, anomalous_wallets : {{}, {"w1"}, {"w1", "w2"}, ws}]

ScoreClusters ==
  /\ call.fn = "score_clusters" /\ ~call.done
  /\ call' = Returned(call,
                      score_clusters(find_anomalous_clusters(call.input.G,
                                                             call.input.anomalous_wallets),
                                     call.input.G))
  /\ UNCHANGED not_pure

InitClusters ==
  /\ PureIdle
  /\ call \in {Pending("score_clusters", i) : i \in ClusterInputs(Wallets)}

NextClusters == ScoreClusters

SpecClusters == InitClusters /\ [][NextClusters]_vars

\* ------------------------------------------------ anomaly pipeline, called alone
\* the i-th transfer of a list: 1 ETH, a hundred seconds after the one before,
\* the sender in checksum case
PipelineTx(c, i) ==
  [from |-> Mixed(c.from), to |-> Raw(c.to), value |-> 1, timestamp |-> 100 * i]

PipelineInputs(ws) ==
  { [transactions |-> [i \in 1..Len(g) |-> PipelineTx(g[i], i)]] : g \in Graphs }

\* the wallets the isolation forest labels anomalous are its own choice
RunPipeline ==
  /\ call.fn = "run_pipeline" /\ ~call.done
  /\ \E outliers \in SUBSET Wallets :
       call' = Returned(call, run_pipeline(call.input.transactions, outliers))
  /\ UNCHANGED not_pure

InitPipeline ==
  /\ PureIdle
  /\ call \in {Pending("run_pipeline", i) : i \in PipelineInputs(Wallets)}

NextPipeline == RunPipeline

SpecPipeline == InitPipeline /\ [][NextPipeline]_vars

\* ------------------------------------------------ fund tracer, called alone
MaxDepth == 3

\* transfers that may be on the chain: a path s -> a -> b -> c -> d, the
\* shortcut s -> b, a way back b -> s and a second way a -> c; the first
\* transfer carries first_value, every other one 2 ETH
TraceEdges(first_value) ==
  << [from |-> Mixed("s"), to |-> Raw("a"), value |-> first_value],
     [from |-> Raw("a"), to |-> Raw("b"), value |-> 200],
     [from |-> Raw("b"), to |-> Mixed("c"), value |-> 200],
     [from |-> Raw("c"), to |-> Raw("d"), value |-> 200],
     [from |-> Raw("s"), to |-> Raw("b"), value |-> 200],
     [from |-> Raw("b"), to |-> Raw("s"), value |-> 200],
     [from |-> Raw("a"), to |-> Raw("c"), value |-> 200],
     [from |-> Raw("d"), to |-> Raw("d"), value |-> 200] >>

\* the transfers of q at the positions in keep, in their order
RECURSIVE Kept(_, _, _)
Kept(q, keep, i) ==
  IF i > Len(q) THEN <<>>
  ELSE (IF i \in keep THEN <<q[i]>> ELSE <<>>) \o Kept(q, keep, i + 1)

\* every subset of the transfers, the first one below the threshold, smaller or
\* larger than the others; thresholds of 0.01 ETH
TraceInputs(start) ==
  { [chain |-> Kept(TraceEdges(v), keep, 1), address |-> start, max_depth |-> d,
     min_value |-> 1, max_branches |-> b, direction |-> dir] :
      v \in {0, 100, 300}, keep \in SUBSET (1..8), d \in 0..MaxDepth,
      b \in {1, 8}, dir \in {"out", "in"} }

TraceFundFlow ==
  /\ call.fn = "trace_fund_flow" /\ ~call.done
  /\ call' = Returned(call, trace_fund_flow(call.input.chain, call.input.address,
                                            call.input.max_depth, call.input.min_value,
                                            call.input.max_branches, call.input.direction))
  /\ UNCHANGED not_pure

InitTrace ==
  /\ PureIdle
  /\ call \in {Pending("trace_fund_flow", i) : i \in TraceInputs(Mixed("s"))}

NextTrace == TraceFundFlow

SpecTrace == InitTrace /\ [][NextTrace]_vars

\* ------------------------------------------------------ label store: calls
MaxAdds == 3

LabelWallets == {Plain("w1"), Padded("w1"), Plain("w2")}
LabelNames == {"fraud", "exchange"}
Confidences == {30, 80, 100}

not_labels == <<orch_vars, rate_vars, journal_vars, cache_vars, call, scorer_vars>>

\* store.add(wallet, label, source, confidence)
Add(wallet, label, source, confidence) ==
  /\ Len(added) < MaxAdds
  /\ labels' = LabelStore_add(labels, wallet, label, source, confidence)
  /\ added' = Append(added, [wallet |-> wallet, label |-> label, source |-> source,
                             confidence |-> confidence])
  /\ UNCHANGED not_labels

InitLabels == OrchIdle /\ reports = <<>> /\ RateInit /\ ExtIdle

NextLabels ==
  \E w \in LabelWallets, l \in LabelNames, c \in Confidences : Add(w, l, "analyst", c)

SpecLabels == InitLabels /\ [][NextLabels]_vars


\* ------------------------------------------- shared scorers: two analyses
\* main.py 149: analyze_wallet is a plain def, so each request runs in its own
\* worker thread; scorer.py 193-194 and gnn_scorer.py 214-215 make one scorer
\* object of each kind for the whole process, and no lock guards them
MaxAnalyses == 1
ScoreThreads == {"a1", "a2"}

\* the feature matrices two analyses may bring (each stands for the rows of one
\* wallet and its neighbours), and the target's standardised feature
Matrices == {"X of wallet p", "X of wallet q"}
TargetFeatures == {1, 2}

\* a scaler or a forest that was never fitted
UNFITTED == [fitted_on |-> "nothing"]

\* scorer.py 25: RobustScaler.fit keeps the medians and quantile ranges of X
RobustScaler_fit(X) == [fitted_on |-> X]

\* RobustScaler.transform: X centred and scaled by the statistics kept
RobustScaler_transform(sc, X) == [rows |-> X, scaled_by |-> sc.fitted_on]

\* scorer.py 68: IsolationForest.fit builds the trees from X_scaled
IsolationForest_fit(X_scaled) == [fitted_on |-> X_scaled]

\* scorer.py 72: the scores the trees of the forest give the rows of X_scaled
decision_function(forest, X_scaled) == [trees_of |-> forest.fitted_on, rows |-> X_scaled]

\* scorer.py 64-72 with nothing else touching the scorer
ScoredAlone(X) ==
  LET X_scaled == RobustScaler_transform(RobustScaler_fit(X), X)
  IN decision_function(IsolationForest_fit(X_scaled), X_scaled)

\* gnn_scorer.py 69-76: the sizes of the layers' inputs and outputs
LayerDims == <<12, 32, 16>>

\* gnn_scorer.py 75: the weight matrix of layer i, drawn at position r
LayerWeight(i, r) == [fan_in |-> LayerDims[i], fan_out |-> LayerDims[i + 1], w |-> Randn(r)]

SHAPE_ERROR == [raised |-> "ValueError: matmul shape mismatch"]

\* gnn_scorer.py 151-154: H through every matrix of the list; a matrix whose
\* fan_in is not the width of H cannot be multiplied
RECURSIVE Propagate(_, _, _)
Propagate(h, width, ws) ==
  IF ws = <<>> THEN [emb |-> h, width |-> width]
  ELSE IF Head(ws).fan_in # width THEN SHAPE_ERROR
  ELSE Propagate(Relu(h * Head(ws).w), Head(ws).fan_out, Tail(ws))

\* gnn_scorer.py 150-214 once the list of weights is read
GnnResult(zx, ws) ==
  LET out == Propagate(zx, LayerDims[1], ws)
  IN IF Raises(out) THEN out
     ELSE [gnn_score |-> Clip(out.emb, 0, 100), gnn_embedding |-> <<out.emb>>]

IdleAnalysis ==
  [pc |-> "idle", X |-> "none", zx |-> 0, X_scaled |-> <<>>, raw_scores |-> <<>>,
   r0 |-> 0, drawn |-> 0, gnn |-> <<>>, runs |-> 0, overlapped |-> FALSE]

Busy(u) == sthr[u].pc \notin {"idle", "done"}

OthersBusy(t) == \E u \in ScoreThreads \ {t} : Busy(u)

\* one step of thread t: its record changes, and every analysis under way
\* while another one is under way is noted as overlapped
Step(t, rec) ==
  sthr' = [u \in ScoreThreads |->
             IF u = t THEN [rec EXCEPT !.overlapped = @ \/ OthersBusy(t)]
             ELSE [sthr[u] EXCEPT !.overlapped = @ \/ Busy(u)]]

not_scorers ==
  <<phase, env, report, prev, calls, fetch_log, reports, rate_vars, journal_vars,
    cache_vars, call, store_vars>>

\* main.py 287: the analysis of thread t enters wallet_scorer.score_wallet
BeginAnalysis(t, X, zx) ==
  /\ sthr[t].pc \in {"idle", "done"}
  /\ sthr[t].runs < MaxAnalyses
  /\ Step(t, [IdleAnalysis EXCEPT !.pc = "scale", !.X = X, !.zx = zx,
                                   !.runs = sthr[t].runs + 1])
  /\ UNCHANGED <<scaler, model, weights, rng, not_scorers>>

\* scorer.py 64: X_scaled = self.scaler.fit_transform(X)
ScalerFitTransform(t) ==
  /\ sthr[t].pc = "scale"
  /\ scaler' = RobustScaler_fit(sthr[t].X)
  /\ Step(t, [sthr[t] EXCEPT !.pc = "fit",
                             !.X_scaled = RobustScaler_transform(scaler', sthr[t].X)])
  /\ UNCHANGED <<model, weights, rng, not_scorers>>

\* scorer.py 68: self.model.fit(X_scaled)
ModelFit(t) ==
  /\ sthr[t].pc = "fit"
  /\ model' = IsolationForest_fit(sthr[t].X_scaled)
  /\ Step(t, [sthr[t] EXCEPT !.pc = "decide"])
  /\ UNCHANGED <<scaler, weights, rng, not_scorers>>

\* scorer.py 72: raw_scores = self.model.decision_function(X_scaled)
DecisionFunction(t) ==
  /\ sthr[t].pc = "decide"
  /\ Step(t, [sthr[t] EXCEPT !.pc = "init",
                             !.raw_scores = decision_function(model, sthr[t].X_scaled)])
  /\ UNCHANGED <<scaler, model, weights, rng, not_scorers>>

\* main.py 409, gnn_scorer.py 150 and 72: score calls _init_weights, which
\* starts a new list
InitWeightsReset(t) ==
  /\ sthr[t].pc = "init"
  /\ weights' = <<>>
  /\ Step(t, [sthr[t] EXCEPT !.pc = "draw", !.r0 = rng, !.drawn = 0])
  /\ UNCHANGED <<scaler, model, rng, not_scorers>>

\* gnn_scorer.py 73-76: one turn of the loop draws a matrix from self.rng and
\* appends it to the list self._weights names at that moment
InitWeightsDraw(t) ==
  /\ sthr[t].pc = "draw"
  /\ sthr[t].drawn < N_LAYERS
  /\ weights' = Append(weights, LayerWeight(sthr[t].drawn + 1, rng))
  /\ rng' = rng + 1
  /\ Step(t, [sthr[t] EXCEPT !.drawn = @ + 1,
                             !.pc = IF sthr[t].drawn + 1 = N_LAYERS THEN "propagate" ELSE "draw"])
  /\ UNCHANGED <<scaler, model, not_scorers>>

\* gnn_scorer.py 151-154: the loop over self._weights, read when the loop starts
GnnPropagate(t) ==
  /\ sthr[t].pc = "propagate"
  /\ Step(t, [sthr[t] EXCEPT !.pc = "done", !.gnn = GnnResult(sthr[t].zx, weights)])
  /\ UNCHANGED <<scaler, model, weights, rng, not_scorers>>

InitScorers ==
  /\ OrchIdle /\ reports = <<>> /\ RateInit /\ FilesIdle
  /\ labels = <<>> /\ added = <<>> /\ call = NoCall
  /\ sthr = [t \in ScoreThreads |-> IdleAnalysis]
  /\ scaler = UNFITTED
  /\ model = UNFITTED
  /\ weights = <<>>

NextScorers ==
  \/ \E t \in ScoreThreads, X \in Matrices, zx \in TargetFeatures : BeginAnalysis(t, X, zx)
  \/ \E t \in ScoreThreads : ScalerFitTransform(t)
  \/ \E t \in ScoreThreads : ModelFit(t)
  \/ \E t \in ScoreThreads : DecisionFunction(t)
  \/ \E t \in ScoreThreads : InitWeightsReset(t)
  \/ \E t \in ScoreThreads : InitWeightsDraw(t)
  \/ \E t \in ScoreThreads : GnnPropagate(t)

SpecScorers == InitScorers /\ [][NextScorers]_vars


\* ================================================================== claims
Analyzed == report.kind = "analyze"
NoTransactions == env.hist.normal = <<>> /\ env.hist.internal = <<>>
OnOfacTable(a) == a \in DOMAIN OFAC_SANCTIONED
InSomeRegistry(a) ==
  \/ a \in DOMAIN OFAC_SANCTIONED
  \/ a \in DOMAIN KNOWN_SCAM_ADDRESSES
  \/ a \in DOMAIN KNOWN_ADDRESSES

\* C1: every report analyze_wallet returns has 0 <= risk_score <= 100, on the
\* no-transaction path, on the scoring-error path and after the sanctions and
\* community modifiers have been added.
C1_ScoreInRange ==
  Analyzed => report.risk_score >= 0 /\ report.risk_score <= 100

\* a report whose base score plus both modifiers would pass 100
C1_Witness ==
  /\ Analyzed
  /\ report.path = "full"
  /\ report.sanctions.risk_modifier > 0
  /\ report.community_risk_modifier > 0
  /\ report.ml_raw_score + report.sanctions.risk_modifier > 100
  /\ report.risk_score = 100

\* C2: a target on the OFAC table is reported as "Critical Risk" with the OFAC
\* marker as the first flag, whatever flags the other steps add.
C2_SanctionedIsCritical ==
  (Analyzed /\ OnOfacTable(report.address)) =>
     /\ report.risk_label = "Critical Risk"
     /\ Len(report.flags) >= 1
     /\ report.flags[1] = OFAC_FLAG

\* a sanctioned target with transactions whose report also carries scorer,
\* counterparty, detector and community flags
C2_Witness ==
  /\ Analyzed
  /\ report.path = "full"
  /\ OnOfacTable(report.address)
  /\ report.community_risk_modifier > 0
  /\ report.mev # <<>> /\ report.mev.is_mev_bot
  /\ Len(report.flags) >= 4
  /\ report.flags[1] = OFAC_FLAG

\* C3: for a wallet with transactions and no sanctions-engine hit the label
\* agrees with the reported (final) score: Low below 40, Medium from 40 and
\* below 75, High from 75.
C3_LabelMatchesScore ==
  (Analyzed /\ report.path = "full" /\ report.sanctions.risk_modifier = 0) =>
     report.risk_label = RiskLabel(report.risk_score)

\* C4: the label of every report is one of the five documented labels, also
\* when the scoring step raises.
C4_LabelInEnum ==
  Analyzed =>
     report.risk_label \in {"No Data", "Low Risk", "Medium Risk", "High Risk", "Critical Risk"}

\* C5: analysing twice in one process on identical fetch outputs, with the same
\* tables and journal, returns identical reports, gnn_score and gnn_embedding
\* included.
C5_Idempotent ==
  (Analyzed /\ prev.kind = "call" /\ prev.env = env) => report = prev.report

\* C6: without normal and internal transactions the report has tx_count 0, the
\* sanctions modifier as score, "Critical Risk" for a sanctioned target and
\* "No Data" otherwise, and exactly one flag telling that no transactions were
\* found; for a target in no registry the score is 0 and that flag is the only one.
C6_NoDataReport ==
  (Analyzed /\ NoTransactions) =>
     /\ report.tx_count = 0
     /\ report.risk_score = check_sanctions(report.address).risk_modifier
     /\ report.risk_label = IF OnOfacTable(report.address) THEN "Critical Risk" ELSE "No Data"
     /\ Cardinality({i \in 1..Len(report.flags) : report.flags[i] = NO_TX_FLAG}) = 1
     /\ ~InSomeRegistry(report.address) =>
          report.risk_score = 0 /\ report.flags = <<NO_TX_FLAG>>

\* a sanctioned target without transactions
C6_Witness ==
  /\ Analyzed
  /\ NoTransactions
  /\ OnOfacTable(report.address)
  /\ report.risk_score > 0
  /\ Len(report.flags) = 2

DetectorNames ==
  [gnn |-> "GNN scoring", temporal |-> "Temporal analysis",
   mev |-> "MEV detection", bridge |-> "Bridge tracking"]
ErrorFlag(name) == name \o " error: " \o REASON
ScoreIsZero(result, field) == field \in DOMAIN result /\ result[field] = 0

\* C8: when a detector raises, the report is still returned, that detector's
\* score is 0 and a flag "<detector> error: <reason>" is among the flags.
C8_DegradedReport ==
  (Analyzed /\ report.path = "full") =>
     /\ env.sc.raises =>
          report.ml_raw_score = 0 /\ Contains(report.flags, ErrorFlag("ML scoring"))
     /\ env.det.gnn = "raise" =>
          /\ ScoreIsZero(report.gnn, "gnn_score")
          /\ Contains(report.flags, ErrorFlag(DetectorNames.gnn))
     /\ env.det.temporal = "raise" =>
          /\ ScoreIsZero(report.temporal, "temporal_risk_score")
          /\ Contains(report.flags, ErrorFlag(DetectorNames.temporal))
     /\ env.det.mev = "raise" =>
          /\ ScoreIsZero(report.mev, "mev_risk_score")
          /\ Contains(report.flags, ErrorFlag(DetectorNames.mev))
     /\ env.det.bridge = "raise" =>
          /\ ScoreIsZero(report.bridges, "bridge_risk_score")
          /\ Contains(report.flags, ErrorFlag(DetectorNames.bridge))

Resolvable(a, ens_answer) == is_ens_name(a) /\ ens_answer # None

\* C9: an address that is not 0x plus 40 hex characters and not a resolvable
\* ENS name is rejected with an error, and no fetch is issued for it, by
\* analyze_wallet and by the batch analyzer.
C9_InvalidRejected ==
  (report.kind \in {"analyze", "batch"}
     /\ ~is_address(env.addr) /\ ~Resolvable(env.addr, env.ens)) =>
     /\ fetch_log = <<>>
     /\ "error" \in DOMAIN report
     /\ report.error # ""

\* C10: any two requests leave the rate limiter at least RATE_LIMIT_DELAY apart,
\* with any number of threads calling.
C10_RequestsSpaced ==
  \A i, j \in 1..Len(passed) :
     i < j => passed[j] - passed[i] >= RATE_LIMIT_DELAY

\* ------------------------------------------------------ community journal
\* C11: with submit_report and vote_report running concurrently, every report
\* whose submission returned success is in the journal afterwards and every
\* vote that returned success is counted in its report's upvotes or downvotes.
C11_NoLostUpdate ==
  /\ \A a \in acked : a.op = "submit" => FindReport(reports, a.id) # 0
  /\ \A i \in 1..Len(reports) :
       /\ reports[i].upvotes >=
            Cardinality({a \in acked : a.op = "vote" /\ a.id = reports[i].id /\ a.vote = "up"})
       /\ reports[i].downvotes >=
            Cardinality({a \in acked : a.op = "vote" /\ a.id = reports[i].id /\ a.vote = "down"})

VotersOf(vote_journal, report_id) ==
  {v \in 1..MaxVoters : VoteKey(report_id, Voter(v)) \in DOMAIN vote_journal}

\* C12: over any sequence of vote_report calls a repeated vote by the same
\* voter on the same report is rejected and changes nothing, and after every
\* call upvotes + downvotes of each report is the number of distinct voters
\* the vote journal records for it.
C12_VoteCountedOnce ==
  [][/\ vres'.error = "Already voted on this report" =>
          reports' = reports /\ votes' = votes
     /\ \A i \in 1..Len(reports') :
          reports'[i].upvotes + reports'[i].downvotes =
            Cardinality(VotersOf(votes', reports'[i].id))]_vars

C12_Witness ==
  /\ vres.error = "Already voted on this report"
  /\ Len(reports) >= 1
  /\ reports[1].upvotes >= 1 /\ reports[1].downvotes >= 1

\* C13: a pending report becomes confirmed when its upvotes reach 5 and
\* dismissed when its downvotes reach 5, its status changes in no other way,
\* and a confirmed or dismissed report keeps its status under later votes.
C13_StatusTransitions ==
  [][\A i \in 1..Len(reports) :
       /\ reports[i].status # "pending" => reports'[i].status = reports[i].status
       /\ (reports[i].status = "pending" /\ reports[i].upvotes < 5
             /\ reports'[i].upvotes >= 5) => reports'[i].status = "confirmed"
       /\ (reports[i].status = "pending" /\ reports[i].downvotes < 5
             /\ reports'[i].downvotes >= 5) => reports'[i].status = "dismissed"
       /\ reports'[i].status # reports[i].status =>
             \/ reports[i].upvotes < 5 /\ reports'[i].upvotes >= 5
             \/ reports[i].downvotes < 5 /\ reports'[i].downvotes >= 5]_vars

C13_Witness ==
  \E i \in 1..Len(reports) :
     /\ reports[i].status = "confirmed"
     /\ reports[i].upvotes >= 5 /\ reports[i].downvotes >= 5

\* m is min(30, floor(8 * log2(n + 1))) for n >= 2 and 0 below; 14^8 >= 2^30
ModifierFor(n, m) ==
  IF n < 2 THEN m = 0
  ELSE IF n + 1 >= 14 THEN m = 30
  ELSE m < 30 /\ Pow(2, m) <= Pow(n + 1, 8) /\ Pow(n + 1, 8) < Pow(2, m + 1)

\* C14: after any sequence of submit_report and vote_report calls the
\* community risk modifier of an address is 0 below 2 reports and
\* min(30, floor(8 * log2(n + 1))) for n >= 2 reports, and no call lowers it.
C14_CommunityModifier ==
  [][\A a \in {ADDR_PLAIN, ADDR_SCAM} :
       /\ ModifierFor(ReportsAbout(reports', a), get_community_risk_modifier(reports', a))
       /\ get_community_risk_modifier(reports', a) >=
            get_community_risk_modifier(reports, a)]_vars

C14_Witness ==
  /\ ReportsAbout(reports, ADDR_PLAIN) >= 14
  /\ get_community_risk_modifier(reports, ADDR_PLAIN) = 30
  /\ get_community_risk_modifier(reports, ADDR_SCAM) = 12
  /\ votes # <<>>

\* ------------------------------------------------------------ fetcher cache
\* C15: fetch_transactions returns the first max_results entries of the cached
\* list without contacting the remote API when the entry for the same
\* (address, chain, kind) was written less than 300 s before the call, and
\* contacts the remote API when the entry is missing or at least 300 s old.
C15_CacheReadPath ==
  fres.kind = "fetch" =>
    IF fres.key \in DOMAIN fres.files /\ fres.at - fres.files[fres.key].mtime < 3
    THEN /\ ~fres.contacted
         /\ \A i \in 1..Len(fres.out) : fres.out[i] = fres.files[fres.key].data[i]
         /\ Len(fres.out) = Min(fres.max_results, Len(fres.files[fres.key].data))
    ELSE fres.contacted

C15_Witness ==
  /\ fres.kind = "fetch"
  /\ fres.key \in DOMAIN fres.files
  /\ fres.at - fres.files[fres.key].mtime = 2
  /\ ~fres.contacted
  /\ Len(fres.out) = 2 /\ Len(fres.files[fres.key].data) = 3

\* C17: for every feature vector the heuristic score is min(100, sum of the rule
\* contributions), hence within [0, 100]; the rules are those of the rule bank,
\* with hard thresholds
RuleContributions(f) ==
  << IF f.round_value_ratio > 60 THEN 20 ELSE IF f.round_value_ratio > 30 THEN 10 ELSE 0,
     IF f.burst_ratio > 50 THEN 25 ELSE IF f.burst_ratio > 20 THEN 10 ELSE 0,
     IF f.self_transfers > 3 THEN 15 ELSE IF f.self_transfers >= 1 THEN 5 ELSE 0,
     IF f.flow_ratio > 5 THEN 20 ELSE IF f.flow_ratio > 2 THEN 10 ELSE 0,
     IF f.failed_tx_ratio > 30 THEN 15 ELSE 0,
     IF f.tx_count > 20 /\ f.unique_counterparties < 5 THEN 15 ELSE 0,
     IF f.lifespan_days < 7 /\ f.tx_count > 30 THEN 20 ELSE 0,
     IF f.lifespan_days < 3 /\ f.max_value > 10 THEN 15 ELSE 0 >>

RECURSIVE SumSeq(_)
SumSeq(q) == IF q = <<>> THEN 0 ELSE Head(q) + SumSeq(Tail(q))

HeuristicReturned == call.fn = "_compute_heuristic_boost" /\ call.done

C17_HeuristicScore ==
  HeuristicReturned =>
    /\ call.out = Min(100, SumSeq(RuleContributions(call.input)))
    /\ call.out \in 0..100

\* every rule fires at its higher step, the sum is 145 and the cap decides
C17_Witness ==
  /\ HeuristicReturned
  /\ SumSeq(RuleContributions(call.input)) = 145
  /\ call.out = 100

MevReturned == call.fn = "detect_mev_activity" /\ call.done
NothingSent ==
  \A i \in 1..Len(call.input.transactions) :
    Lower(call.input.transactions[i].from) # Lower(call.input.address)

\* C18: for a wallet whose list holds no transaction sent by the wallet,
\* detect_mev_activity returns mev_risk_score = 0 and is_mev_bot = false,
\* whatever the inbound transactions are
C18_NoOutboundNoMev ==
  (MevReturned /\ NothingSent) =>
    (call.out.mev_risk_score = 0 /\ ~call.out.is_mev_bot)

\* the list is exactly the block of the scenario: two calls by the wallet to one
\* DEX router at indices 5 and 9, and one transaction of somebody else at index 7
SandwichScenario ==
  LET txs == call.input.transactions
      own == SentBy(Lower(call.input.address), txs)
      others == SelectSeq(txs, LAMBDA tx : Lower(tx.from) # Lower(call.input.address))
  IN /\ Len(own) = 2 /\ Len(others) = 1
     /\ \A i \in 1..Len(txs) : txs[i].blockNumber = txs[1].blockNumber
     /\ {own[1].transactionIndex, own[2].transactionIndex} = {5, 9}
     /\ Lower(own[1].to) = Lower(own[2].to)
     /\ _is_dex_call(own[1]) /\ _is_dex_call(own[2])
     /\ others[1].transactionIndex = 7

\* C19: two outbound calls to the same DEX router R in one block at indices 5 and
\* 9 with exactly one other transaction between them at index 7 give exactly one
\* sandwich with front_index 5, back_index 9, contract R and victims_between 1
\* (the number of intervening transactions), and mev_risk_score >= 15
C19_SandwichRecord ==
  (MevReturned /\ SandwichScenario) =>
    /\ Len(call.out.sandwiches) = 1
    /\ call.out.sandwiches[1].front_index = 5
    /\ call.out.sandwiches[1].back_index = 9
    /\ Lower(call.out.sandwiches[1].contract) = Lower(call.input.transactions[1].to)
    /\ call.out.sandwiches[1].victims_between = 1
    /\ call.out.mev_risk_score >= 15

BridgeReturned == call.fn = "detect_bridge_usage" /\ call.done

\* three of the wallet's bridge transactions lie within one hour
ThreeWithinAnHour(timeline) ==
  \E i, j, k \in 1..Len(timeline) :
    /\ i < j /\ j < k
    /\ timeline[i].timestamp # 0
    /\ timeline[k].timestamp - timeline[i].timestamp < 3600

\* C20: whenever at least 3 of the wallet's bridge transactions fall within a
\* one-hour window (such as 3 deposits to distinct Stargate contracts within 40
\* minutes) detect_bridge_usage adds 20 to the score and includes the flag "Rapid
\* successive bridge transactions (< 1 hour apart)", so bridge_risk_score >= 20
C20_RapidBridging ==
  (BridgeReturned /\ ThreeWithinAnHour(call.out.bridge_timeline)) =>
    /\ Contains(call.out.bridge_flags, RAPID_FLAG)
    /\ call.out.bridge_risk_score >= 20

\* C16: every address that appears in a report returned by analyze_wallet
\* (target, graph nodes and links, counterparties, sanctions lists, detector
\* outputs such as MEV sandwich and front-running records) is lowercase, whatever
\* letter case the fetched transactions use.  The target, the counterparties, the
\* sanctions lists, the front-running contracts and the known bots are lower-cased
\* where they are built and are lowercase strings here; the sandwich records carry
\* the address as fetched
C16_AddressesLowercase ==
  (Analyzed /\ report.path = "full" /\ report.mev # <<>>) =>
    \A i \in 1..Len(report.mev.sandwiches) : ~report.mev.sandwiches[i].contract.up

\* ------------------------------------------------------ temporal anomalies
TemporalReturned == call.fn = "detect_temporal_anomalies" /\ call.done
ActiveDays(transactions) == {DayOf(tx.timeStamp) : tx \in Range(Timestamped(transactions))}
FirstDay(days) == CHOOSE d \in days : \A o \in days : d <= o
LastDay(days) == CHOOSE d \in days : \A o \in days : d >= o

\* one entry per calendar day from first to last; entry i is what key sums to
\* over the transactions of day first + i - 1, so 0 on a day without any
Contiguous(y, transactions, first, last, key) ==
  /\ Len(y) = last - first + 1
  /\ \A i \in 1..Len(y) :
       y[i] = IF key = "tx_count" THEN Len(OnDay(transactions, first + i - 1))
              ELSE ValueSum(OnDay(transactions, first + i - 1))

\* C21: the tx_count and volume series that detect_temporal_anomalies hands to
\* the z-score, CUSUM and EMA detectors have one entry for every UTC calendar
\* day from the wallet's first active day to its last, with 0 for the days on
\* which it has no transaction.
C21_GapsZeroFilled ==
  (TemporalReturned /\ ActiveDays(call.input.transactions) # {}) =>
    LET days == ActiveDays(call.input.transactions)
    IN /\ Contiguous(call.handed.tx_counts, call.input.transactions,
                     FirstDay(days), LastDay(days), "tx_count")
       /\ Contiguous(call.handed.volumes, call.input.transactions,
                     FirstDay(days), LastDay(days), "volume")

\* the same for wallets whose active days follow each other without a gap
NoGapSeriesContiguous ==
  (TemporalReturned /\ ActiveDays(call.input.transactions) # {}
   /\ Cardinality(ActiveDays(call.input.transactions))
        = LastDay(ActiveDays(call.input.transactions))
          - FirstDay(ActiveDays(call.input.transactions)) + 1) =>
    /\ Contiguous(call.handed.tx_counts, call.input.transactions,
                  FirstDay(ActiveDays(call.input.transactions)),
                  LastDay(ActiveDays(call.input.transactions)), "tx_count")
    /\ Contiguous(call.handed.volumes, call.input.transactions,
                  FirstDay(ActiveDays(call.input.transactions)),
                  LastDay(ActiveDays(call.input.transactions)), "volume")

\* the keys the burst analysis of a complete result has: the count, the
\* longest streak, the mean gap and the percentage
BURST_KEYS == {"burst_count", "longest_burst", "avg_burst_gap_sec", "burst_pct"}

CompleteTemporal(result) ==
  /\ ~Raises(result)
  /\ "temporal_risk_score" \in DOMAIN result
  /\ "burst_analysis" \in DOMAIN result
  /\ BURST_KEYS \subseteq DOMAIN result.burst_analysis

\* C23: detect_temporal_anomalies returns a complete result (a
\* temporal_risk_score and a burst analysis with count, longest streak, mean
\* gap and percentage) for every transaction list, also for one with fewer
\* than two timestamped transactions, and never raises.
C23_TemporalComplete == TemporalReturned => CompleteTemporal(call.out)

\* with two timestamped transactions or more the result is complete
TwoTimestampsComplete ==
  (TemporalReturned /\ Len(Timestamped(call.input.transactions)) >= 2) =>
    CompleteTemporal(call.out)

\* ------------------------------------------------------- feature extraction
FeaturesReturned == call.fn = "extract_wallet_features" /\ call.done

\* the gaps between the wallet's timestamps taken in ascending order
GapsOf(transactions) == Diffs(SortedTimestamps(transactions))
ShortGaps(transactions) == SelectSeq(GapsOf(transactions), LAMBDA d : d < 300)

\* C22: burst_ratio of extract_wallet_features is the number of gaps between
\* consecutive timestamps shorter than 300 s over the number of gaps, and it is
\* 0 for a wallet that has transactions but fewer than two timestamps.
C22_BurstRatio ==
  (FeaturesReturned /\ call.input.transactions # <<>>) =>
    IF Len(SortedTimestamps(call.input.transactions)) < 2
    THEN call.out.burst_ratio = 0
    ELSE call.out.burst_ratio
           = (100 * Len(ShortGaps(call.input.transactions)))
             \div Len(GapsOf(call.input.transactions))

\* with two timestamps or more the ratio is the one the claim describes
BurstRatioOfGaps ==
  (FeaturesReturned /\ Len(SortedTimestamps(call.input.transactions)) >= 2) =>
    call.out.burst_ratio
      = (100 * Len(ShortGaps(call.input.transactions)))
        \div Len(GapsOf(call.input.transactions))

\* ------------------------------------------------------ batch and watchlist
\* a batch or watchlist result that carries a score, for a sanctioned target
SanctionedLightReport ==
  /\ phase = "returned"
  /\ report.kind \in {"batch", "quick"}
  /\ "risk_label" \in DOMAIN report
  /\ check_sanctions(report.address).is_sanctioned

\* what the orchestrator reports for the same request
OrchestratorReport == analyze_wallet(env, rng, reports).report

\* C24: the batch analyzer's _analyze_single and the watchlist's quick_score
\* treat a sanctioned target like the orchestrator does: the label is
\* "Critical Risk" and the risk_score includes the sanctions risk_modifier,
\* whether the target has transactions or not.
C24_SanctionedLikeOrchestrator ==
  SanctionedLightReport =>
    /\ report.risk_label = "Critical Risk"
    /\ report.risk_score = OrchestratorReport.risk_score

\* the watchlist agrees with the orchestrator when the target has transactions
QuickWithTransactions ==
  (SanctionedLightReport /\ report.kind = "quick" /\ ~NoTransactions) =>
    /\ report.risk_label = "Critical Risk"
    /\ report.risk_score = OrchestratorReport.risk_score

\* the batch analyzer adds the modifier when the target has transactions
BatchScoreWithTransactions ==
  (SanctionedLightReport /\ report.kind = "batch" /\ ~NoTransactions) =>
    report.risk_score = OrchestratorReport.risk_score

\* and keeps the scorer's label
BatchLabelWithTransactions ==
  (SanctionedLightReport /\ report.kind = "batch" /\ ~NoTransactions) =>
    report.risk_label = "Critical Risk"

\* --------------------------------------------------------- cluster analysis
ClustersReturned == call.fn = "score_clusters" /\ call.done

\* edges with both endpoints in the cluster, and edges with at least one
InsideEdges(G, C) == Len(SelectSeq(G, LAMBDA e : e.from \in C /\ e.to \in C))
TouchingEdges(G, C) == Len(SelectSeq(G, LAMBDA e : e.from \in C \/ e.to \in C))

\* the ratio r is n / d
RatioIs(r, n, d) == d > 0 /\ r.num * d = n * r.den

\* C25 as stated: internal_tx_ratio is the number of edges inside the cluster
\* over (the number of edges touching the cluster minus the number inside),
\* parallel edges counted separately.
C25_InsideOverOutside ==
  ClustersReturned =>
    \A c \in call.out :
      RatioIs(c.internal_tx_ratio, InsideEdges(call.input.G, c.wallets),
              TouchingEdges(call.input.G, c.wallets)
              - InsideEdges(call.input.G, c.wallets))

\* C25, amended: internal_tx_ratio is the number of edges inside the cluster
\* over the number of edges touching at least one cluster member (over 1 when
\* no edge touches it), parallel edges and self-transfers counted separately.
C25_InsideOverTouching ==
  ClustersReturned =>
    \A c \in call.out :
      RatioIs(c.internal_tx_ratio, InsideEdges(call.input.G, c.wallets),
              Max(TouchingEdges(call.input.G, c.wallets), 1))

\* a cluster of two wallets with two parallel transfers inside and one transfer
\* that leaves it
C25_Witness ==
  /\ ClustersReturned
  /\ \E c \in call.out :
       /\ c.wallets = {"w1", "w2"}
       /\ InsideEdges(call.input.G, c.wallets) = 2
       /\ TouchingEdges(call.input.G, c.wallets) = 3
       /\ call.input.G[1] = call.input.G[2]

\* --------------------------------------------------------- anomaly pipeline
PipelineReturned == call.fn = "run_pipeline" /\ call.done

PIPELINE_KEYS ==
  {"graph_summary", "total_wallets", "anomalous_wallets", "clusters", "wallet_scores"}

\* C26: run_pipeline fits the isolation-based detector on the scaled matrix of
\* exactly the per-wallet graph features of its feature stage, so for every
\* non-empty transaction list every stage finds the columns it reads and the
\* pipeline returns graph_summary, total_wallets, anomalous_wallets, clusters
\* and wallet_scores without raising.
C26_PipelineRuns ==
  (PipelineReturned /\ call.input.transactions # <<>>) =>
    /\ ~Raises(call.out)
    /\ PIPELINE_KEYS \subseteq DOMAIN call.out

\* the feature stage itself yields exactly the graph columns for every wallet
GraphColumnsOnly ==
  (PipelineReturned /\ call.input.transactions # <<>>) =>
    LET df == compute_wallet_features(build_transaction_graph(call.input.transactions))
    IN \A wallet \in DOMAIN df : DOMAIN df[wallet] = GRAPH_COLUMNS

\* ------------------------------------------------------------ fund tracer
TraceReturned == call.fn = "trace_fund_flow" /\ call.done

RECURSIVE AddressesIn(_)
AddressesIn(node) ==
  {node.address} \cup UNION {AddressesIn(node.children[i]) : i \in 1..Len(node.children)}

\* the parameters of a call as the traversal sees them
ParamsOf(input) ==
  [chain |-> input.chain, max_depth |-> ClampDepth(input.max_depth),
   min_value |-> input.min_value, max_branches |-> input.max_branches,
   direction |-> input.direction]

\* one hop further from the addresses in R
OneHop(p, R) ==
  R \cup UNION { {NextAddr(p, Relevant_txns(p, a)[i]) : i \in 1..Len(Relevant_txns(p, a))}
                 : a \in R }

RECURSIVE WithinHops(_, _, _)
WithinHops(p, R, hops) == IF hops = 0 THEN R ELSE WithinHops(p, OneHop(p, R), hops - 1)

\* C27: every address reachable from the start address within max_depth hops,
\* following from each address its up to max_branches largest transfers of at
\* least min_value_eth in the chosen direction, appears in the tree that
\* trace_fund_flow returns, also when the transfers form cycles or reach an
\* address over paths of different length.
C27_ReachableInTree ==
  TraceReturned =>
    WithinHops(ParamsOf(call.input), {Lower(call.input.address)},
               ClampDepth(call.input.max_depth))
      \subseteq AddressesIn(call.out.tree)

\* what is in the tree is reachable within max_depth hops
TreeWithinHops ==
  TraceReturned =>
    AddressesIn(call.out.tree)
      \subseteq WithinHops(ParamsOf(call.input), {Lower(call.input.address)},
                           ClampDepth(call.input.max_depth))

\* up to two hops nothing is missed
TwoHopsComplete ==
  (TraceReturned /\ call.input.max_depth <= 2) =>
    WithinHops(ParamsOf(call.input), {Lower(call.input.address)},
               ClampDepth(call.input.max_depth))
      \subseteq AddressesIn(call.out.tree)

\* -------------------------------------------------------------- label store
\* the adds for the wallet stored under key, by position
AddsFor(key) == {i \in 1..Len(added) : WalletKey(added[i].wallet) = key}

\* the earliest of the adds for key that carry the highest confidence
BestAdd(key) ==
  CHOOSE i \in AddsFor(key) :
    \A k \in AddsFor(key) :
      \/ added[k].confidence < added[i].confidence
      \/ (added[k].confidence = added[i].confidence /\ i <= k)

StoredIsBest ==
  /\ DOMAIN labels = {WalletKey(added[i].wallet) : i \in 1..Len(added)}
  /\ \A i \in 1..Len(added) :
       LabelStore_get(labels, added[i].wallet)
         = LabelEntry(added[BestAdd(WalletKey(added[i].wallet))].label,
                      added[BestAdd(WalletKey(added[i].wallet))].source,
                      added[BestAdd(WalletKey(added[i].wallet))].confidence)

\* an add that does not bring a strictly higher confidence changes nothing
NoDowngrade ==
  (Len(added') = Len(added) + 1
   /\ WalletKey(added'[Len(added')].wallet) \in DOMAIN labels
   /\ added'[Len(added')].confidence
        <= labels[WalletKey(added'[Len(added')].wallet)].confidence)
  => labels' = labels

\* C28: after any sequence of LabelStore.add calls the entry stored for a
\* wallet, keyed by its lower-cased and stripped address, is the earliest of
\* the adds with the highest confidence ever added for it; an add whose
\* confidence is not strictly higher than the stored one leaves the store
\* unchanged.
C28_HighestConfidenceWins == []StoredIsBest /\ [][NoDowngrade]_vars

\* w1 was added with 30, then as fraud with 100, then as exchange with 100 under
\* another spelling, and is stored as fraud
C28_Witness ==
  /\ Len(added) = 3
  /\ added[1].confidence = 30 /\ added[2].confidence = 100 /\ added[3].confidence = 100
  /\ added[1].wallet = Plain("w1") /\ added[2].wallet = Plain("w1")
  /\ added[3].wallet = Padded("w1")
  /\ added[2].label = "fraud" /\ added[3].label = "exchange"
  /\ LabelStore_get(labels, Padded("w1")).label = "fraud"

\* ------------------------------------------------ fetcher cache and max_results
\* a call answered from the cache while the remote API still holds the list it
\* held when the entry was written
ServedFromCache ==
  /\ fres.kind = "fetch"
  /\ ~fres.contacted
  /\ fres.held = fres.files[fres.key].held

\* what a call that goes to the remote API returns for the list held there
Uncached(held, max_results) == Truncate(ApiPage(held, max_results), max_results)

\* C29: within the cache TTL fetch_transactions(address, chain, max_results = m)
\* returns the list an uncached fetch with max_results = m would return,
\* whatever max_results the call that filled the cache entry used.
C29_CacheIgnoresMaxResults ==
  ServedFromCache => fres.out = Uncached(fres.held, fres.max_results)

\* a call that asks for no more than the cached entry holds gets what an
\* uncached call would get
SmallerRequestsAgree ==
  (ServedFromCache /\ fres.max_results <= Len(fres.files[fres.key].data)) =>
    fres.out = Uncached(fres.held, fres.max_results)

\* ------------------------------------------------- shared scorers, two threads
AnalysisDone(t) == sthr # <<>> /\ sthr[t].pc = "done"

\* what the two scorers hand an analysis that nothing else interleaves with:
\* the forest is the one fitted on its own rows, the weights are the N_LAYERS
\* matrices drawn for it from the position the generator had at its call
RanAlone(t) ==
  /\ sthr[t].raw_scores = ScoredAlone(sthr[t].X)
  /\ sthr[t].gnn = GNNScorer_score(sthr[t].zx, sthr[t].r0).result

\* C30: when two analyses run at the same time in different threads, each call
\* of wallet_scorer.score_wallet and of gnn_scorer.score returns what it would
\* return if it ran alone; the scaler, forest or weights fitted for one call
\* never score the wallet of the other.
C30_ScorersIsolated ==
  \A t \in ScoreThreads : AnalysisDone(t) => RanAlone(t)

\* an analysis no other analysis overlapped does get the result of a lone call
LoneAnalysisRanAlone ==
  \A t \in ScoreThreads : (AnalysisDone(t) /\ ~sthr[t].overlapped) => RanAlone(t)

\* an analysis scored by the forest fitted on the other wallet's rows
ScoredByOtherForest ==
  \E t \in ScoreThreads :
    /\ AnalysisDone(t)
    /\ sthr[t].raw_scores.trees_of.rows # sthr[t].X

\* an analysis whose propagation met the other call's matrices in the list
PropagationShapeError ==
  \E t \in ScoreThreads : AnalysisDone(t) /\ Raises(sthr[t].gnn)

====
